---- MODULE Spec2Model ----
(***************************************************************************)
(* A model of gphotos_sync.GoogleAlbumsSync: the album indexer             *)
(* (index_album_media, index_albums_type, fetch_album_contents), the album *)
(* folder naming (album_folder_name) and the link reconciler               *)
(* (create_album_content_links, _clean_up_stale_links).                    *)
(*                                                                         *)
(* Paths are sequences of name components relative to the root folder.     *)
(* The filesystem is a function from the paths that exist to their         *)
(* directory entries: a directory, a regular file (an inode number; hard   *)
(* links are several paths with one inode) or a symbolic link (its stored  *)
(* target, a relative path).                                               *)
(***************************************************************************)
EXTENDS Integers, Sequences, FiniteSets, TLC

VARIABLES
    settings,       \* the Settings the object was constructed with
    flush,          \* self.flush
    fs,             \* the filesystem under the root folder
    db,             \* the local store: albums, album_files, sync_files
    remote,         \* the remote service's album and media listings
    pc,             \* position of the running operation, "idle" when none runs
    lnk,            \* locals of create_album_content_links
    idx,            \* locals of index_album_media / index_albums_type
    hist            \* history of the current or last operation (observation only)

vars == <<settings, flush, fs, db, remote, pc, lnk, idx, hist>>

----------------------------------------------------------------------------
(* Strings and paths *)

Char(s, k) == SubSeq(s, k, k)

Digits == <<"0", "1", "2", "3", "4", "5", "6", "7", "8", "9">>

RECURSIVE IntStr(_)
IntStr(n) == IF n < 10 THEN Digits[n + 1]
             ELSE IntStr(n \div 10) \o Digits[(n % 10) + 1]

RECURSIVE ZeroPad(_, _)
\* Python's "{:0<w>d}": at least w digits, zero-filled on the left.
ZeroPad(s, w) == IF Len(s) >= w THEN s ELSE ZeroPad("0" \o s, w)

\* s[:n]
Truncate(s, n) == IF Len(s) <= n THEN s ELSE SubSeq(s, 1, n)

RECURSIVE SplitFrom(_, _, _)
\* The components of the path string s from position k on; cur is the
\* component being read.  Empty components ("a//b", a trailing "/") vanish,
\* as in pathlib.
SplitFrom(s, k, cur) ==
    IF k > Len(s) THEN (IF cur = "" THEN <<>> ELSE <<cur>>)
    ELSE IF Char(s, k) = "/"
         THEN (IF cur = "" THEN <<>> ELSE <<cur>>) \o SplitFrom(s, k + 1, "")
         ELSE SplitFrom(s, k + 1, cur \o Char(s, k))

PathOf(s) == SplitFrom(s, 1, "")

RECURSIVE JoinStr(_)
JoinStr(p) == IF p = <<>> THEN ""
              ELSE IF Len(p) = 1 THEN p[1]
              ELSE p[1] \o "/" \o JoinStr(Tail(p))

Parent(p) == SubSeq(p, 1, Len(p) - 1)

IsPrefix(a, b) == Len(a) <= Len(b) /\ SubSeq(b, 1, Len(a)) = a

IsUnder(p, root) == IsPrefix(root, p) /\ p # root

RECURSIVE Normalize(_, _)
\* os.path.normpath of the component sequence todo appended to done.
Normalize(done, todo) ==
    IF todo = <<>> THEN done
    ELSE IF Head(todo) = ".."
         THEN Normalize(IF done = <<>> THEN <<>> ELSE Parent(done), Tail(todo))
         ELSE IF Head(todo) = "."
              THEN Normalize(done, Tail(todo))
              ELSE Normalize(Append(done, Head(todo)), Tail(todo))

RECURSIVE CommonLen(_, _)
CommonLen(a, b) ==
    IF a = <<>> \/ b = <<>> \/ Head(a) # Head(b) THEN 0
    ELSE 1 + CommonLen(Tail(a), Tail(b))

\* os.path.relpath(path, start) on normalised component sequences.
relpath(path, start) ==
    LET i == CommonLen(path, start)
    IN  [k \in 1..(Len(start) - i) |-> ".."] \o SubSeq(path, i + 1, Len(path))

\* The root folder's own path string; str(root_folder / p) is this, a
\* separator and the path string.
RootFolderStr == "/r"

PathStr(p) == IF p = <<>> THEN RootFolderStr ELSE RootFolderStr \o "/" \o JoinStr(p)

----------------------------------------------------------------------------
(* The filesystem, as pathlib / os see it *)

NoEntry == [kind |-> "none", ino |-> 0, target |-> <<>>]
DirEntry == [kind |-> "dir", ino |-> 0, target |-> <<>>]
FileEntry(i) == [kind |-> "file", ino |-> i, target |-> <<>>]
SymlinkEntry(t) == [kind |-> "symlink", ino |-> 0, target |-> t]

\* os.lstat: the entry at p itself.
Lstat(f, p) == IF p \in DOMAIN f THEN f[p] ELSE NoEntry

RECURSIVE StatN(_, _, _)
\* os.stat: the entry p leads to, following symbolic links; NoEntry for a
\* dangling link or a loop (n hops are left).
StatN(f, p, n) ==
    LET e == Lstat(f, p)
    IN  IF e.kind # "symlink" THEN e
        ELSE IF n = 0 THEN NoEntry
        ELSE StatN(f, Normalize(Parent(p), e.target), n - 1)

Stat(f, p) == StatN(f, p, Cardinality(DOMAIN f))

RECURSIVE RealPathN(_, _, _)
\* The path p leads to, following symbolic links.
RealPathN(f, p, n) ==
    LET e == Lstat(f, p)
    IN  IF e.kind # "symlink" \/ n = 0 THEN p
        ELSE RealPathN(f, Normalize(Parent(p), e.target), n - 1)

exists(f, p) == Stat(f, p).kind # "none"          \* Path.exists
is_dir(f, p) == Stat(f, p).kind = "dir"            \* Path.is_dir
is_symlink(f, p) == Lstat(f, p).kind = "symlink"   \* Path.is_symlink
st_ino(f, p) == Stat(f, p).ino                     \* Path.stat().st_ino
readlink(f, p) == Lstat(f, p).target               \* os.readlink
lexists(f, p) == p \in DOMAIN f

Children(f, p) == {q \in DOMAIN f : Len(q) = Len(p) + 1 /\ IsPrefix(p, q)}
iterdir(f, p) == Children(f, RealPathN(f, p, Cardinality(DOMAIN f)))   \* Path.iterdir
Prefixes(p) == {SubSeq(p, 1, k) : k \in 0..Len(p)}

Without(f, gone) == [q \in DOMAIN f \ gone |-> f[q]]
With(f, p, e) == [q \in DOMAIN f \cup {p} |-> IF q = p THEN e ELSE f[q]]

Ok(f) == [fs |-> f, err |-> "none"]
Err(f, e) == [fs |-> f, err |-> e]

\* Path.unlink / os.unlink: removes the entry at p itself, never what a
\* symbolic link points to; a directory cannot be unlinked.
unlink(f, p) ==
    IF ~lexists(f, p) THEN Err(f, "FileNotFoundError")
    ELSE IF f[p].kind = "dir" THEN Err(f, "IsADirectoryError")
    ELSE Ok(Without(f, {p}))

\* Path.rmdir
rmdir(f, p) ==
    IF ~lexists(f, p) THEN Err(f, "FileNotFoundError")
    ELSE IF f[p].kind # "dir" THEN Err(f, "NotADirectoryError")
    ELSE IF Children(f, p) # {} THEN Err(f, "OSError")
    ELSE Ok(Without(f, {p}))

\* Path.mkdir(parents=True) (exist_ok is False for p itself)
mkdir_parents(f, p) ==
    IF lexists(f, p) THEN Err(f, "FileExistsError")
    ELSE IF \E a \in Prefixes(p) : lexists(f, a) /\ ~is_dir(f, a)
         THEN Err(f, "NotADirectoryError")
    ELSE Ok([q \in DOMAIN f \cup Prefixes(p) |->
                IF q \in DOMAIN f THEN f[q] ELSE DirEntry])

\* shutil.rmtree(root): root and everything below it.  Symbolic links
\* inside the tree are removed, not followed.
rmtree(f, root) == Without(f, {q \in DOMAIN f : IsPrefix(root, q)})

\* os.link(src, dst): a new directory entry for src's inode.
os_link(f, src, dst) ==
    IF lexists(f, dst) THEN Err(f, "FileExistsError")
    ELSE IF ~exists(f, src) \/ ~is_dir(f, Parent(dst)) THEN Err(f, "FileNotFoundError")
    ELSE Ok(With(f, dst, FileEntry(st_ino(f, src))))

\* os.symlink(target, dst) / Path(dst).symlink_to(target): target is stored
\* as given.
os_symlink(f, target, dst) ==
    IF lexists(f, dst) THEN Err(f, "FileExistsError")
    ELSE IF ~is_dir(f, Parent(dst)) THEN Err(f, "FileNotFoundError")
    ELSE Ok(With(f, dst, SymlinkEntry(target)))

\* A character the filesystem encoding has no bytes for (in a Python str, a
\* lone surrogate); "#" stands for it.  A system call on a path that holds
\* one raises UnicodeEncodeError before it reaches the filesystem.
Unencodable == "#"

HasUnencodable(p) ==
    \E k \in 1..Len(p) : \E j \in 1..Len(p[k]) : Char(p[k], j) = Unencodable

\* Path(root).glob('**/*'): every path below root.  The recursion does not
\* descend through symbolic links, and no entry of this model lies below one.
glob_all(f, root) == {q \in DOMAIN f : IsUnder(q, root)}

----------------------------------------------------------------------------
(* Album folder naming *)

\* Checks.valid_file_name: the title with the characters the filesystem does
\* not allow in a name taken out.
IllegalChars == {"!", "/", ":", "?", "*"}

RECURSIVE valid_file_name_from(_, _)
valid_file_name_from(s, k) ==
    IF k > Len(s) THEN ""
    ELSE (IF Char(s, k) \in IllegalChars THEN "" ELSE Char(s, k))
         \o valid_file_name_from(s, k + 1)

valid_file_name(s) == valid_file_name_from(s, 1)

RECURSIVE strftime_from(_, _, _)
\* Utils.safe_str_time(d, fmt): strftime with the directives %Y, %m and %d.
strftime_from(d, fmt, k) ==
    IF k > Len(fmt) THEN ""
    ELSE IF Char(fmt, k) = "%" /\ k < Len(fmt)
         THEN (CASE Char(fmt, k + 1) = "Y" -> ZeroPad(IntStr(d.y), 4)
                 [] Char(fmt, k + 1) = "m" -> ZeroPad(IntStr(d.m), 2)
                 [] Char(fmt, k + 1) = "d" -> ZeroPad(IntStr(d.d), 2)
                 [] OTHER -> Char(fmt, k + 1))
              \o strftime_from(d, fmt, k + 2)
         ELSE Char(fmt, k) \o strftime_from(d, fmt, k + 1)

safe_str_time(d, fmt) == strftime_from(d, fmt, 1)

DigitValue(c) == CHOOSE n \in 0..9 : Digits[n + 1] = c

RECURSIVE format_from(_, _, _)
\* str.format(*args) for templates of literal text and the replacement
\* fields {0} .. {9}: ok is FALSE when a field's index is out of range
\* (IndexError).
format_from(fmt, args, k) ==
    IF k > Len(fmt) THEN [ok |-> TRUE, val |-> ""]
    ELSE IF Char(fmt, k) = "{" /\ k + 2 <= Len(fmt) /\ Char(fmt, k + 2) = "}"
            /\ \E n \in 0..9 : Digits[n + 1] = Char(fmt, k + 1)
         THEN LET n == DigitValue(Char(fmt, k + 1))
                  rest == format_from(fmt, args, k + 3)
              IN  IF n >= Len(args) THEN [ok |-> FALSE, val |-> ""]
                  ELSE [ok |-> rest.ok, val |-> args[n + 1] \o rest.val]
         ELSE LET rest == format_from(fmt, args, k + 1)
              IN  [ok |-> rest.ok, val |-> Char(fmt, k) \o rest.val]

str_format(fmt, args) == format_from(fmt, args, 1)

\* The option as it is, the default not put in its place.
OrDefaultNotApplied(x, default) == x

\* Python's  x or default  for an optional string ("" stands for None).
OrDefault(x, default) == IF x = "" THEN default ELSE x

_albums_root == settings.albums_path
_shared_albums_root == settings.shared_albums_path
_photos_root == settings.photos_path

\* The relative path of the album's folder below its root: ok is FALSE when
\* the path format raises.
album_rel_path(album_name, start_date, end_date) ==
    LET name == valid_file_name(album_name)
        d == IF settings.use_start_date THEN start_date ELSE end_date
        year == safe_str_time(d, "%Y")
        month == safe_str_time(d, OrDefault(settings.month_format, "%m%d"))
    IN  IF settings.omit_album_date THEN [ok |-> TRUE, val |-> name]
        ELSE IF settings.use_flat_path
             THEN str_format(OrDefault(settings.path_format, "{0}-{1} {2}"),
                             <<year, month, name>>)
             ELSE LET leaf == str_format(OrDefault(settings.path_format, "{0} {1}"),
                                         <<month, name>>)
                  IN  [ok |-> leaf.ok, val |-> year \o "/" \o leaf.val]

album_folder_name(album_name, start_date, end_date, shared) ==
    LET rel == album_rel_path(album_name, start_date, end_date)
        root == IF shared THEN _shared_albums_root ELSE _albums_root
    IN  [ok |-> rel.ok, path |-> IF rel.ok THEN root \o PathOf(rel.val) ELSE <<>>]

----------------------------------------------------------------------------
(* The local store (LocalData) *)

\* db.albums      : album id -> [name, size, start_date, end_date, shared, downloaded]
\* db.album_files : set of [album_id, media_id, position], one per (album_id, media_id)
\* db.sync_files  : media id -> [path, filename, duplicate_number]

EmptyDb == [albums |-> <<>>, album_files |-> {}, sync_files |-> <<>>]

\* The order in which the store lists albums.
AlbumOrder == <<"alb1", "alb2", "alb3">>
MediaOrder == <<"m1", "m2", "m3", "i1", "v1", "i2", "i3">>

RankIn(order, x) == CHOOSE k \in 1..Len(order) : order[k] = x

\* get_album(album_id): the album's row, or nothing.
get_album(d, album_id) ==
    IF album_id \in DOMAIN d.albums
    THEN [found |-> TRUE, row |-> d.albums[album_id]]
    ELSE [found |-> FALSE, row |-> <<>>]

\* A put that keeps of the album's rows only the one it writes.
put_album_file_replacing_album(d, album_id, media_id, position) ==
    [d EXCEPT !.album_files =
        {af \in @ : af.album_id # album_id}
        \cup {[album_id |-> album_id, media_id |-> media_id, position |-> position]}]

\* put_album_file(album_id, media_id, position): upsert on (album_id, media_id).
put_album_file(d, album_id, media_id, position) ==
    [d EXCEPT !.album_files =
        {af \in @ : ~(af.album_id = album_id /\ af.media_id = media_id)}
        \cup {[album_id |-> album_id, media_id |-> media_id, position |-> position]}]

\* put_album_downloaded(album_id)
put_album_downloaded(d, album_id) ==
    IF album_id \in DOMAIN d.albums
    THEN [d EXCEPT !.albums[album_id].downloaded = TRUE]
    ELSE d

\* rows of get_album_files come before one another by album, then by
\* position (descending when inverted), then by media id.
RowBefore(a, b, invert) ==
    LET ra == RankIn(AlbumOrder, a.album_id)
        rb == RankIn(AlbumOrder, b.album_id)
        pa == IF invert THEN 0 - a.position ELSE a.position
        pb == IF invert THEN 0 - b.position ELSE b.position
    IN  \/ ra < rb
        \/ ra = rb /\ pa < pb
        \/ ra = rb /\ pa = pb
           /\ RankIn(MediaOrder, a.media_id) < RankIn(MediaOrder, b.media_id)

RECURSIVE SortedAlbumFiles(_, _)
SortedAlbumFiles(afs, invert) ==
    IF afs = {} THEN <<>>
    ELSE LET first == CHOOSE a \in afs :
                         \A b \in afs \ {a} : RowBefore(a, b, invert)
         IN  <<first>> \o SortedAlbumFiles(afs \ {first}, invert)

\* get_album_files(album_invert, download_again): the album files whose
\* album and media item are both indexed, joined with them, grouped by album
\* and ordered by position within the album.
get_album_files(d, album_invert, download_again) ==
    LET joined == {af \in d.album_files :
                      /\ af.album_id \in DOMAIN d.albums
                      /\ af.media_id \in DOMAIN d.sync_files}
        sorted == SortedAlbumFiles(joined, album_invert)
    IN  [k \in 1..Len(sorted) |->
            LET af == sorted[k]
                al == d.albums[af.album_id]
                sf == d.sync_files[af.media_id]
            IN  [path |-> sf.path, file_name |-> sf.filename,
                 album_name |-> al.name,
                 start_date |-> al.start_date, end_date |-> al.end_date,
                 rid |-> af.album_id, sharedAlbum |-> al.shared]]

----------------------------------------------------------------------------
(* The remote service and fetch_album_contents *)

PAGE_SIZE == 100
ALBUM_ITEMS == 50

Date(y, m, d) == [y |-> y, m |-> m, d |-> d]

DateBefore(a, b) ==
    \/ a.y < b.y
    \/ a.y = b.y /\ a.m < b.m
    \/ a.y = b.y /\ a.m = b.m /\ a.d < b.d

date_max(a, b) == IF DateBefore(a, b) THEN b ELSE a

\* first_date left at what it was.
date_min_not_taken(a, b) == b

date_min(a, b) == IF DateBefore(b, a) THEN b ELSE a

\* Utils.maximum_date() and Utils.MINIMUM_DATE
maximum_date == Date(9999, 12, 31)
MINIMUM_DATE == Date(1900, 1, 1)

\* The media items of the remote library, as mediaItems.search lists them.
MediaItems ==
    [i1 |-> [filename |-> "IMG_1.jpg", create_date |-> Date(2020, 1, 1), is_video |-> FALSE],
     v1 |-> [filename |-> "VID_1.mp4", create_date |-> Date(2020, 6, 15), is_video |-> TRUE],
     i2 |-> [filename |-> "IMG_1.jpg", create_date |-> Date(2020, 12, 31), is_video |-> FALSE],
     i3 |-> [filename |-> "IMG_1.jpg", create_date |-> Date(2020, 1, 20), is_video |-> FALSE]]

\* remote.albums : album id -> [title, pages]; title "" is an album without
\*                 a title; pages are the pages of its media listing, each a
\*                 sequence of media ids, the last one without a
\*                 nextPageToken.  mediaItemsCount is the number of items.
\* remote.owned, remote.shared : the pages of the two album listings.

RECURSIVE Flatten(_)
Flatten(pages) == IF pages = <<>> THEN <<>> ELSE Head(pages) \o Flatten(Tail(pages))

album_size(r, a) == Len(Flatten(r.albums[a].pages))

\* GooglePhotosMedia.set_path_by_date(photos_folder, use_flat_path)
relative_folder(media) ==
    LET y == ZeroPad(IntStr(media.create_date.y), 4)
        m == ZeroPad(IntStr(media.create_date.m), 2)
    IN  IF settings.use_flat_path
        THEN JoinStr(settings.photos_path) \o "/" \o y \o "-" \o m
        ELSE JoinStr(settings.photos_path) \o "/" \o y \o "/" \o m

\* file_duplicate_no(filename, folder, media_id): the number the item has
\* already, or the count of other items with this file name in this folder.
file_duplicate_no(d, filename, folder, media_id) ==
    IF media_id \in DOMAIN d.sync_files
    THEN d.sync_files[media_id].duplicate_number
    ELSE Cardinality({x \in DOMAIN d.sync_files :
                         /\ d.sync_files[x].filename = filename
                         /\ d.sync_files[x].path = folder})

\* put_row(GooglePhotosRow.from_media(media_item), False)
put_media_row(d, media_id, row) ==
    [d EXCEPT !.sync_files =
        [x \in DOMAIN @ \cup {media_id} |-> IF x = media_id THEN row ELSE @[x]]]

\* put_row(GoogleAlbumsRow.from_parm(...), update=indexed_album)
put_album_row(d, album_id, row) ==
    [d EXCEPT !.albums =
        [x \in DOMAIN @ \cup {album_id} |-> IF x = album_id THEN row ELSE @[x]]]

\* The counter as the claimed filtered numbering would keep it: a skipped
\* video does not advance it.
position_after_recorded_item(position, skipped) ==
    IF skipped THEN position ELSE position + 1

\* duplicate_number left at the 0 a new media item has.
duplicate_number_not_set(num) == 0

\* media_item.duplicate_number = num
duplicate_number_set(num) == num

\* position += 1, at the top of the loop body, before the video check.
position_after_item(position, skipped) == position + 1

\* The loop body for one media item.  st is [db, position, first_date,
\* last_date, recorded, added].
fetch_item(st, album_id, media_id, add_media_items) ==
    LET media == MediaItems[media_id]
        skipped == (~settings.include_video) /\ media.is_video
        position == position_after_item(st.position, skipped)
        d1 == put_album_file(st.db, album_id, media_id, position)
        folder == relative_folder(media)
        num == file_duplicate_no(d1, media.filename, folder, media_id)
        d2 == IF add_media_items
              THEN put_media_row(d1, media_id,
                                 [path |-> folder, filename |-> media.filename,
                                  duplicate_number |-> duplicate_number_set(num)])
              ELSE d1
    IN  IF skipped
        THEN [st EXCEPT !.position = position]
        ELSE [db |-> d2,
              position |-> position,
              first_date |-> date_min(media.create_date, st.first_date),
              last_date |-> date_max(media.create_date, st.last_date),
              recorded |-> Append(st.recorded, [media_id |-> media_id,
                                                position |-> position]),
              added |-> IF add_media_items THEN st.added \cup {media_id} ELSE st.added]

RECURSIVE fetch_items(_, _, _, _)
fetch_items(st, album_id, items, add_media_items) ==
    IF items = <<>> THEN st
    ELSE fetch_items(fetch_item(st, album_id, Head(items), add_media_items),
                     album_id, Tail(items), add_media_items)

RECURSIVE fetch_pages_until_empty(_, _, _, _, _)
\* A loop that an empty page ends, with or without a nextPageToken.
fetch_pages_until_empty(st, album_id, pages, k, add_media_items) ==
    LET media_json == pages[k]
        next_page == k < Len(pages)
    IN  IF media_json = <<>> THEN st
        ELSE LET st1 == fetch_items(st, album_id, media_json, add_media_items)
             IN  IF next_page
                 THEN fetch_pages_until_empty(st1, album_id, pages, k + 1,
                                              add_media_items)
                 ELSE st1

RECURSIVE fetch_pages(_, _, _, _, _)
\* The while loop from the k-th page of the album's listing on.
fetch_pages(st, album_id, pages, k, add_media_items) ==
    LET media_json == pages[k]
        next_page == k < Len(pages)
    IN  IF media_json = <<>> /\ ~next_page THEN st
        ELSE LET st1 == fetch_items(st, album_id, media_json, add_media_items)
             IN  IF next_page
                 THEN fetch_pages(st1, album_id, pages, k + 1, add_media_items)
                 ELSE st1

\* fetch_album_contents(album_id, add_media_items) on the store d.
fetch_album_contents(d, album_id, add_media_items) ==
    fetch_pages([db |-> d, position |-> 0 - 1,
                 first_date |-> maximum_date, last_date |-> MINIMUM_DATE,
                 recorded |-> <<>>, added |-> {}],
                album_id, remote.albums[album_id].pages, 1, add_media_items)

\* fetch_album_contents when mediaItems.search.execute raises: the first
\* request (done = 0) or the request of the page after the first done
\* pages.  The rows of the pages handled before it are in the store.
fetch_album_contents_raising(d, album_id, add_media_items, done) ==
    IF done = 0 THEN d
    ELSE fetch_pages([db |-> d, position |-> 0 - 1,
                      first_date |-> maximum_date, last_date |-> MINIMUM_DATE,
                      recorded |-> <<>>, added |-> {}],
                     album_id, SubSeq(remote.albums[album_id].pages, 1, done), 1,
                     add_media_items).db

----------------------------------------------------------------------------
(* index_album_media and index_albums_type *)

UpperChars == <<"A", "B", "C", "D", "E", "F", "G", "H", "I", "J", "K", "L", "M",
                "N", "O", "P", "Q", "R", "S", "T", "U", "V", "W", "X", "Y", "Z">>
LowerChars == <<"a", "b", "c", "d", "e", "f", "g", "h", "i", "j", "k", "l", "m",
                "n", "o", "p", "q", "r", "s", "t", "u", "v", "w", "x", "y", "z">>

LowerChar(c) ==
    IF \E k \in 1..Len(UpperChars) : UpperChars[k] = c
    THEN LowerChars[CHOOSE k \in 1..Len(UpperChars) : UpperChars[k] = c]
    ELSE c

RECURSIVE lower_from(_, _)
lower_from(s, k) ==
    IF k > Len(s) THEN "" ELSE LowerChar(Char(s, k)) \o lower_from(s, k + 1)

\* re.search(pattern, s, re.I) for a pattern of literal characters: the
\* pattern occurs somewhere in s, letter case ignored.
re_search(pattern, s) ==
    LET p == lower_from(pattern, 1)
        t == lower_from(s, 1)
    IN  \E k \in 1..(Len(t) - Len(p) + 1) : SubSeq(t, k, k + Len(p) - 1) = p

\* GoogleAlbumMedia(album_json): an album listed without a title goes by
\* the name "none".
GoogleAlbumMedia(album_json) ==
    [id |-> album_json.id,
     size |-> album_json.mediaItemsCount,
     orig_name |-> OrDefault(album_json.title, "none"),
     description |-> OrDefault(album_json.title, "none"),
     filename |-> OrDefault(album_json.title, "none")]

\* The two listings the other way round: titles required of owned albums,
\* not of shared ones.
index_passes_titles_swapped ==
    (IF settings.shared_albums
     THEN <<[item_key |-> "sharedAlbums", allow_null_title |-> TRUE,
             add_media_items |-> TRUE]>>
     ELSE <<>>)
    \o <<[item_key |-> "albums", allow_null_title |-> FALSE,
          add_media_items |-> settings.album_index]>>

\* The owned listing indexed before the shared one.
index_passes_owned_first ==
    <<[item_key |-> "albums", allow_null_title |-> TRUE,
       add_media_items |-> settings.album_index]>>
    \o (IF settings.shared_albums
        THEN <<[item_key |-> "sharedAlbums", allow_null_title |-> FALSE,
                add_media_items |-> TRUE]>>
        ELSE <<>>)

\* index_album_media: the calls of index_albums_type it makes, in order.
index_passes ==
    (IF settings.shared_albums
     THEN <<[item_key |-> "sharedAlbums", allow_null_title |-> FALSE,
             add_media_items |-> TRUE]>>
     ELSE <<>>)
    \o <<[item_key |-> "albums", allow_null_title |-> TRUE,
          add_media_items |-> settings.album_index]>>

\* add_media_items left as the caller passed it.
add_media_items_as_passed(add_media_items) == add_media_items

\* "when only looking for favourites do not download album contents"
effective_add_media_items(add_media_items) ==
    IF settings.favourites_only THEN FALSE ELSE add_media_items

\* No stored album counts as indexed.
never_indexed(indexed_album, album) == FALSE

already_indexed(indexed_album, album) ==
    IF indexed_album.found THEN indexed_album.row.size = album.size ELSE FALSE

\* An album stored at all counts as indexed, whatever its size.
skip_rule_any_stored(indexed_album, album, allow_null_title) ==
    IF settings.album # "" /\ settings.album # album.orig_name THEN "album"
    ELSE IF settings.album_regex # "" /\ ~re_search(settings.album_regex, album.orig_name)
    THEN "album_regex"
    ELSE IF ~allow_null_title /\ album.description = "none" THEN "no_title"
    ELSE IF indexed_album.found /\ ~flush THEN "already_indexed"
    ELSE "none"

\* A chain in which flush comes before the filters: with flush set every
\* listed album is indexed.
skip_rule_flush_first(indexed_album, album, allow_null_title) ==
    IF flush THEN "none"
    ELSE IF settings.album # "" /\ settings.album # album.orig_name THEN "album"
    ELSE IF settings.album_regex # "" /\ ~re_search(settings.album_regex, album.orig_name)
    THEN "album_regex"
    ELSE IF ~allow_null_title /\ album.description = "none" THEN "no_title"
    ELSE IF already_indexed(indexed_album, album) THEN "already_indexed"
    ELSE "none"

\* The if / elif chain: the first rule that skips the album, "none" when
\* the album is to be indexed.
skip_rule(indexed_album, album, allow_null_title) ==
    IF settings.album # "" /\ settings.album # album.orig_name THEN "album"
    ELSE IF settings.album_regex # "" /\ ~re_search(settings.album_regex, album.orig_name)
    THEN "album_regex"
    ELSE IF ~allow_null_title /\ album.description = "none" THEN "no_title"
    ELSE IF already_indexed(indexed_album, album) /\ ~flush THEN "already_indexed"
    ELSE "none"

\* The album listing of one kind, all pages in order.
album_listing(item_key) ==
    LET pages == IF item_key = "sharedAlbums" THEN remote.shared ELSE remote.owned
    IN  [k \in 1..Len(Flatten(pages)) |->
            LET a == Flatten(pages)[k]
            IN  [id |-> a, title |-> remote.albums[a].title,
                 mediaItemsCount |-> album_size(remote, a)]]

\* The body of the loop over the listed albums, for one album_json.
index_one_album(d, album_json, pass) ==
    LET album == GoogleAlbumMedia(album_json)
        add_media_items == effective_add_media_items(pass.add_media_items)
        indexed_album == get_album(d, album.id)
        skip == skip_rule(indexed_album, album, pass.allow_null_title)
        r == fetch_album_contents(d, album.id, add_media_items)
        gar == [name |-> album.filename, size |-> album.size,
                start_date |-> r.first_date, end_date |-> r.last_date,
                shared |-> (pass.item_key = "sharedAlbums"), downloaded |-> FALSE]
        d1 == IF skip = "none" THEN put_album_row(r.db, album.id, gar) ELSE d
    IN  [db |-> d1,
         entry |-> [id |-> album.id, item_key |-> pass.item_key,
                    title |-> album_json.title, size |-> album.size,
                    stored |-> indexed_album.found,
                    stored_size |-> IF indexed_album.found
                                    THEN indexed_album.row.size ELSE 0,
                    skip |-> skip,
                    fetched |-> skip = "none",
                    add_media_items |-> add_media_items,
                    listing |-> Flatten(remote.albums[album.id].pages),
                    recorded |-> IF skip = "none" THEN r.recorded ELSE <<>>,
                    first_date |-> IF skip = "none" THEN r.first_date ELSE maximum_date,
                    last_date |-> IF skip = "none" THEN r.last_date ELSE MINIMUM_DATE,
                    added |-> IF skip = "none" THEN r.added ELSE {},
                    rows_before |-> DOMAIN d.sync_files,
                    rows_after |-> DOMAIN d1.sync_files,
                    unchanged |-> (d1 = d)]]

----------------------------------------------------------------------------
(* create_album_content_links: one album file *)

\* Checks.max_path and Checks.max_filename, the limits of the filesystem.
max_path == 4096
max_filename == 255

\* root_folder / path / file_name, after the path and the file name are
\* clamped to the filesystem's limits.
full_file_name_of(row) ==
    LET path == IF Len(RootFolderStr \o "/" \o row.path) > max_path
                THEN Truncate(row.path, max_path - Len(RootFolderStr))
                ELSE row.path
        file_name == Truncate(row.file_name, max_filename)
    IN  PathOf(path) \o <<file_name>>

\* The prefix put before the file name whatever no_album_sorting is.
link_filename_always_numbered(album_item, file_name) ==
    Truncate(ZeroPad(IntStr(album_item), 4) \o "_" \o file_name, max_filename)

link_filename_of(album_item, file_name) ==
    Truncate(IF settings.no_album_sorting
             THEN file_name
             ELSE ZeroPad(IntStr(album_item), 4) \o "_" \o file_name,
             max_filename)

\* What the loop body computes for a row before it touches the filesystem.
link_plan(row, album_item) ==
    LET full == full_file_name_of(row)
        folder == album_folder_name(row.album_name, row.start_date,
                                    row.end_date, row.sharedAlbum)
        name == link_filename_of(album_item, Truncate(row.file_name, max_filename))
    IN  [full_file_name |-> full,
         folder_ok |-> folder.ok,
         link_folder |-> folder.path,
         link_file |-> folder.path \o <<name>>,
         relative_filename |-> relpath(full, folder.path)]

\* if not link_folder.is_dir(): link_folder.mkdir(parents=True)
ensure_link_folder(f, link_folder) ==
    IF HasUnencodable(link_folder) THEN Err(f, "UnicodeEncodeError")
    ELSE IF is_dir(f, link_folder) THEN Ok(f) ELSE mkdir_parents(f, link_folder)

\* create_link left True whatever is found at link_file.
link_never_current(f, plan) == FALSE

\* Any entry at the link path taken for the link wanted.
link_current_if_present(f, plan) ==
    settings.preserve_album_links /\ exists(f, plan.link_file)

\* create_link stays False: preserving, and the entry at link_file already
\* is the link wanted.
link_is_current(f, plan) ==
    /\ settings.preserve_album_links
    /\ exists(f, plan.link_file)
    /\ IF settings.use_hardlinks
       THEN /\ exists(f, plan.link_file)
            /\ exists(f, plan.full_file_name)
            /\ st_ino(f, plan.link_file) = st_ino(f, plan.full_file_name)
       ELSE /\ is_symlink(f, plan.link_file)
            /\ readlink(f, plan.link_file) = plan.relative_filename

\* "Remove existing link if it exists"
remove_existing(f, link_file) ==
    IF exists(f, link_file) /\ (is_symlink(f, link_file) \/ settings.use_hardlinks)
    THEN unlink(f, link_file)
    ELSE Ok(f)

\* A link made to the file's path below the root folder instead of the path
\* relative to the link's folder.
make_link_to_full_name(f, plan) ==
    IF settings.use_hardlinks
    THEN os_link(f, plan.full_file_name, plan.link_file)
    ELSE os_symlink(f, plan.full_file_name, plan.link_file)

\* "Create the link"
make_link(f, plan) ==
    IF settings.use_hardlinks
    THEN os_link(f, plan.full_file_name, plan.link_file)
    ELSE os_symlink(f, plan.relative_filename, plan.link_file)

\* The try block of the loop body on filesystem f.  err is the exception
\* that left the block ("none" when it ran to its end); unlinked and
\* created are the paths the block unlinked and created links at.
link_body(f, plan) ==
    LET s1 == ensure_link_folder(f, plan.link_folder)
        wanted == /\ s1.err = "none"
                  /\ exists(s1.fs, plan.full_file_name)
                  /\ ~link_is_current(s1.fs, plan)
        s2 == IF wanted THEN remove_existing(s1.fs, plan.link_file) ELSE s1
        s3 == IF wanted /\ s2.err = "none" THEN make_link(s2.fs, plan) ELSE s2
    IN  [fs |-> s3.fs,
         err |-> s3.err,
         unlinked |-> IF wanted /\ s2.err = "none" /\ s2.fs # s1.fs
                      THEN {plan.link_file} ELSE {},
         created |-> IF wanted /\ s2.err = "none" /\ s3.err = "none"
                     THEN {plan.link_file} ELSE {},
         counted |-> s3.err = "none" /\ exists(s3.fs, plan.link_file)]

\* A loop body with the first handler only.
CaughtOnlyFileExists == {"FileExistsError"}

\* The handlers of the loop body: except FileExistsError, except
\* UnicodeEncodeError.  Any other exception leaves the method.
CaughtPerItem == {"FileExistsError", "UnicodeEncodeError"}

----------------------------------------------------------------------------
(* _clean_up_stale_links *)

\* A scan that starts at the root folder instead of root_dir.
stale_scan_root_folder(f, root_dir) == glob_all(f, <<>>)

\* root_dir.glob('**/*') of the first loop
stale_scan(f, root_dir) == glob_all(f, root_dir)

\* The first loop: the entries that are unlinked.
stale_links(f, root_dir, valid_links) ==
    {p \in stale_scan(f, root_dir) :
        /\ ~is_dir(f, p)
        /\ p \notin valid_links
        /\ (is_symlink(f, p) \/ (settings.use_hardlinks /\ exists(f, p)))}

\* key=lambda p: len(str(p))
SortKey(p) == Len(PathStr(p))

\* The sort without reverse=True: a path with the smallest key first.
FirstOfSortedAscending(todo) ==
    CHOOSE p \in todo : \A q \in todo : SortKey(p) <= SortKey(q)

\* sorted(..., key=..., reverse=True): a path with the largest key first.
FirstOfSorted(todo) == CHOOSE p \in todo : \A q \in todo : SortKey(q) <= SortKey(p)

RECURSIVE remove_empty_dirs(_, _)
\* The second loop over the paths todo, which were globbed and sorted before
\* it began.  An rmdir that fails (OSError) is logged and changes nothing.
remove_empty_dirs(f, todo) ==
    IF todo = {} THEN f
    ELSE LET p == FirstOfSorted(todo)
             f1 == IF is_dir(f, p) /\ iterdir(f, p) = {}
                   THEN rmdir(f, p).fs
                   ELSE f
         IN  remove_empty_dirs(f1, todo \ {p})

_clean_up_stale_links(f, root_dir, valid_links) ==
    LET stale == stale_links(f, root_dir, valid_links)
        f1 == Without(f, stale)
    IN  [fs |-> remove_empty_dirs(f1, glob_all(f1, root_dir)),
         removed_count |-> Cardinality(stale)]

----------------------------------------------------------------------------
(* create_album_content_links: the pass *)

NoFs == [q \in {} |-> DirEntry]

\* The album trees: the part of the filesystem at and below the two roots.
LinkTree(f) ==
    [q \in {x \in DOMAIN f : IsPrefix(_albums_root, x) \/ IsPrefix(_shared_albums_root, x)}
        |-> f[q]]

LnkIdle == [rows |-> <<>>, i |-> 0, current_rid |-> "", album_item |-> 0,
            count |-> 0, valid_links |-> {}, removed_count |-> 0]

HistNone == [op |-> "none", result |-> "none",
             unlinked |-> {}, created |-> {}, valid_links |-> {},
             hasEnd |-> FALSE, endTree |-> NoFs,
             hasPrevEnd |-> FALSE, prevEndTree |-> NoFs,
             startFs |-> NoFs, log |-> <<>>, startDb |-> EmptyDb,
             named |-> <<>>, rowlog |-> <<>>,
             aborted |-> <<>>, prevAborted |-> <<>>,
             skipped |-> {}, prevSkipped |-> {}]

\* A pass that leaves the previous trees in place.
keep_previous_trees(f) == f

\* "Only remove and recreate all album links if not preserving links"
remove_previous_trees(f) ==
    LET f1 == IF exists(f, _albums_root) THEN rmtree(f, _albums_root) ELSE f
    IN  IF exists(f1, _shared_albums_root) THEN rmtree(f1, _shared_albums_root) ELSE f1

\* "Create album directory structure if it doesn't exist"
create_roots(f) ==
    LET f1 == IF ~exists(f, _albums_root) THEN mkdir_parents(f, _albums_root).fs ELSE f
    IN  IF ~exists(f1, _shared_albums_root)
        THEN mkdir_parents(f1, _shared_albums_root).fs ELSE f1

\* The method up to the loop.
StartLinks ==
    /\ pc = "idle"
    /\ LET f1 == IF ~settings.preserve_album_links THEN remove_previous_trees(fs) ELSE fs
           f2 == create_roots(f1)
           re_download == ~exists(f2, _albums_root)
       IN  /\ fs' = f2
           /\ lnk' = [LnkIdle EXCEPT
                        !.rows = get_album_files(db, settings.album_invert, re_download),
                        !.i = 1]
    /\ pc' = "link_rows"
    /\ hist' = [hist EXCEPT !.op = "links", !.result = "running",
                            !.unlinked = {}, !.created = {}, !.valid_links = {},
                            !.hasPrevEnd = FALSE, !.prevEndTree = NoFs,
                            !.startFs = fs, !.rowlog = <<>>,
                            !.skipped = {}, !.prevSkipped = hist.skipped]
    /\ UNCHANGED <<settings, flush, db, remote, idx>>

\* One iteration of the loop over get_album_files.
LinkRow ==
    /\ pc = "link_rows"
    /\ lnk.i <= Len(lnk.rows)
    /\ LET row == lnk.rows[lnk.i]
           same == lnk.current_rid = row.rid
           album_item == IF same THEN lnk.album_item + 1 ELSE 0
           plan == link_plan(row, album_item)
           valid == IF settings.preserve_album_links /\ plan.folder_ok
                    THEN lnk.valid_links \cup {plan.link_file}
                    ELSE lnk.valid_links
           body == IF plan.folder_ok THEN link_body(fs, plan)
                   ELSE [fs |-> fs, err |-> "IndexError", unlinked |-> {},
                         created |-> {}, counted |-> FALSE]
           raised == body.err # "none" /\ body.err \notin CaughtPerItem
       IN  /\ db' = IF same THEN db ELSE put_album_downloaded(db, row.rid)
           /\ fs' = body.fs
           /\ hist' = [hist EXCEPT
                 !.unlinked = @ \cup body.unlinked,
                 !.created = @ \cup
                     {[link_file |-> c, full_file_name |-> plan.full_file_name,
                       link_folder |-> plan.link_folder, entry |-> body.fs[c],
                       src_ino |-> st_ino(fs, plan.full_file_name)]
                      : c \in body.created},
                 !.valid_links = valid,
                 !.rowlog = Append(@,
                     [i |-> lnk.i, rid |-> row.rid, file_name |-> row.file_name,
                      link_file |-> plan.link_file, err |-> body.err,
                      had_target |-> exists(fs, plan.full_file_name),
                      made |-> body.created # {},
                      linked |-> body.counted]),
                 !.result = IF raised THEN "raised" ELSE @,
                 !.hasEnd = IF raised THEN FALSE ELSE @,
                 !.endTree = IF raised THEN NoFs ELSE @]
           /\ IF raised
              THEN /\ lnk' = LnkIdle
                   /\ pc' = "idle"
              ELSE /\ lnk' = [lnk EXCEPT
                                !.i = @ + 1,
                                !.current_rid = row.rid,
                                !.album_item = album_item,
                                !.count = IF body.counted THEN @ + 1 ELSE @,
                                !.valid_links = valid]
                   /\ pc' = "link_rows"
    /\ UNCHANGED <<settings, flush, remote, idx>>

\* "When preserving links, remove any links that no longer should exist",
\* and the end of the method.
prune_after_loop(f, valid_links) ==
    IF settings.preserve_album_links /\ valid_links # {}
    THEN LET r1 == IF exists(f, _albums_root)
                   THEN _clean_up_stale_links(f, _albums_root, valid_links)
                   ELSE [fs |-> f, removed_count |-> 0]
             r2 == IF exists(r1.fs, _shared_albums_root)
                   THEN _clean_up_stale_links(r1.fs, _shared_albums_root, valid_links)
                   ELSE [fs |-> r1.fs, removed_count |-> 0]
         IN  [fs |-> r2.fs, removed_count |-> r1.removed_count + r2.removed_count]
    ELSE [fs |-> f, removed_count |-> 0]

FinishLinks ==
    /\ pc = "link_rows"
    /\ lnk.i > Len(lnk.rows)
    /\ LET r == prune_after_loop(fs, lnk.valid_links)
       IN  /\ fs' = r.fs
           /\ hist' = [hist EXCEPT !.result = "done",
                          !.skipped = {k \in 1..Len(hist.rowlog) :
                                          ~hist.rowlog[k].had_target},
                          !.hasPrevEnd = hist.hasEnd, !.prevEndTree = hist.endTree,
                          !.hasEnd = ~settings.preserve_album_links,
                          !.endTree = IF settings.preserve_album_links THEN NoFs
                                      ELSE LinkTree(r.fs)]
    /\ lnk' = LnkIdle
    /\ pc' = "idle"
    /\ UNCHANGED <<settings, flush, db, remote, idx>>

----------------------------------------------------------------------------
(* The link reconciler's world: media files, index states, earlier trees *)

\* The media files the download pipeline writes, and their inodes.
MediaFile == [m1 |-> [path |-> "photos/2020", filename |-> "a.jpg", ino |-> 1],
              m2 |-> [path |-> "photos/2021", filename |-> "a.jpg", ino |-> 2]]

MediaPath(m) == PathOf(MediaFile[m].path) \o <<MediaFile[m].filename>>

MediaPaths == {MediaPath(m) : m \in DOMAIN MediaFile}

AF(a, m, pos) == [album_id |-> a, media_id |-> m, position |-> pos]

AlbumRow(name, size, first, last, shared) ==
    [name |-> name, size |-> size, start_date |-> first, end_date |-> last,
     shared |-> shared, downloaded |-> FALSE]

\* alb1 and alb2 get the same folder (their titles sanitize to the same
\* name and their dates agree); alb3 is a shared album.
LinkAlbums ==
    [alb1 |-> AlbumRow("Trip", 2, Date(2020, 1, 1), Date(2020, 6, 15), FALSE),
     alb2 |-> AlbumRow("Trip!", 1, Date(2020, 1, 1), Date(2020, 6, 15), FALSE),
     alb3 |-> AlbumRow("Trip", 1, Date(2020, 1, 1), Date(2020, 6, 15), TRUE)]

LinkSyncFiles ==
    [m \in DOMAIN MediaFile |->
        [path |-> MediaFile[m].path, filename |-> MediaFile[m].filename,
         duplicate_number |-> 0]]

\* The index states: no album file; one; two albums whose first files
\* take the same link path, one of them with a second file; a shared album.
LinkAlbumFileSets ==
    { {},
      {AF("alb1", "m1", 0)},
      {AF("alb1", "m1", 0), AF("alb1", "m2", 1), AF("alb2", "m2", 0)},
      {AF("alb3", "m1", 0)} }

LinkDbs ==
    {[albums |-> [a \in {af.album_id : af \in afs} |-> LinkAlbums[a]],
      album_files |-> afs, sync_files |-> LinkSyncFiles]
     : afs \in LinkAlbumFileSets}

\* Paths below the album root at which earlier runs or the user may have
\* left entries: the link path of alb1's first file, and a path in a folder
\* no album of the index has.
TamperPaths == {<<"albums", "2020", "06 Trip", "0000_a.jpg">>,
                <<"albums", "2019", "01 Old", "x.jpg">>}

\* A file that is no media file's link.
ForeignFile == FileEntry(9)

\* What may be found at such a path: a hard link to a media file that
\* exists, a symbolic link to a media file, to nothing or to a directory, a
\* file of its own, an empty directory.
TamperEntries(f, p) ==
    IF p = <<"albums", "2019", "01 Old", "x.jpg">>
    THEN {ForeignFile, SymlinkEntry(relpath(MediaPath("m2"), Parent(p)))}
    ELSE {FileEntry(MediaFile[m].ino) :
              m \in {x \in DOMAIN MediaFile : lexists(f, MediaPath(x))}}
         \cup {SymlinkEntry(relpath(MediaPath(m), Parent(p))) : m \in DOMAIN MediaFile}
         \cup {ForeignFile, SymlinkEntry(<<"gone.jpg">>),
               SymlinkEntry(<<"..">>), DirEntry}

BaseSettings ==
    [photos_path |-> <<"photos">>, albums_path |-> <<"albums">>,
     shared_albums_path |-> <<"sharedAlbums">>,
     album |-> "", album_regex |-> "", shared_albums |-> TRUE,
     album_index |-> TRUE, use_start_date |-> FALSE, favourites_only |-> FALSE,
     include_video |-> TRUE, use_flat_path |-> FALSE, omit_album_date |-> FALSE,
     album_invert |-> FALSE, use_hardlinks |-> FALSE, ntfs_override |-> FALSE,
     month_format |-> "%m", path_format |-> "", no_album_sorting |-> FALSE,
     preserve_album_links |-> FALSE]

LinkSettings ==
    {[BaseSettings EXCEPT !.use_hardlinks = h, !.preserve_album_links = pr]
     : h \in BOOLEAN, pr \in BOOLEAN}

RemoteNone == [albums |-> <<>>, owned |-> <<>>, shared |-> <<>>]
IdxIdle == [passes |-> <<>>, todo |-> <<>>, count |-> 0]

\* The media download pipeline writes a media file.
Download(m) ==
    /\ pc = "idle"
    /\ ~lexists(fs, MediaPath(m))
    /\ fs' = With(mkdir_parents(fs, Parent(MediaPath(m))).fs, MediaPath(m),
                  FileEntry(MediaFile[m].ino))
    /\ hist' = HistNone
    /\ UNCHANGED <<settings, flush, db, remote, pc, lnk, idx>>

\* Between passes the index comes to hold other album files.
Reindex(d) ==
    /\ pc = "idle"
    /\ d.album_files # db.album_files
    /\ db' = d
    /\ hist' = HistNone
    /\ UNCHANGED <<settings, flush, fs, remote, pc, lnk, idx>>

\* Between passes an entry appears at a free path of the album tree.  What the last finished pass left is remembered all the same.
Tamper(p, e) ==
    /\ pc = "idle"
    /\ ~lexists(fs, p)
    /\ e \in TamperEntries(fs, p)
    /\ fs' = With(IF lexists(fs, Parent(p)) THEN fs
                  ELSE mkdir_parents(fs, Parent(p)).fs, p, e)
    /\ hist' = [HistNone EXCEPT !.hasEnd = hist.hasEnd, !.endTree = hist.endTree]
    /\ UNCHANGED <<settings, flush, db, remote, pc, lnk, idx>>

AllTamperEntries ==
    {DirEntry, ForeignFile, SymlinkEntry(<<"gone.jpg">>),
     SymlinkEntry(<<"..">>)}
    \cup {FileEntry(MediaFile[m].ino) : m \in DOMAIN MediaFile}
    \cup {SymlinkEntry(relpath(MediaPath(m), Parent(p))) :
            m \in DOMAIN MediaFile, p \in TamperPaths}

\* m2 is downloaded from the start, m1 may come later.
InitFs ==
    [q \in {<<>>, <<"photos">>, <<"photos", "2021">>, MediaPath("m2")} |->
        IF q = MediaPath("m2") THEN FileEntry(MediaFile["m2"].ino) ELSE DirEntry]

Init ==
    /\ settings \in LinkSettings
    /\ flush = FALSE
    /\ fs = InitFs
    /\ db \in LinkDbs
    /\ remote = RemoteNone
    /\ pc = "idle"
    /\ lnk = LnkIdle
    /\ idx = IdxIdle
    /\ hist = HistNone

Next ==
    \/ StartLinks
    \/ LinkRow
    \/ FinishLinks
    \/ \E m \in DOMAIN MediaFile : Download(m)
    \/ \E d \in LinkDbs : Reindex(d)
    \/ \E p \in TamperPaths, e \in AllTamperEntries : Tamper(p, e)

Spec == Init /\ [][Next]_vars

----------------------------------------------------------------------------
(* A second world for the loop over the album files: several files per    *)
(* album, an album whose folder name cannot be encoded, a file name at the *)
(* length limit, the ordering prefix on and off                            *)

RECURSIVE Repeat(_, _)
\* n times the string c
Repeat(c, n) == IF n = 0 THEN ""
                ELSE IF n % 2 = 0 THEN LET h == Repeat(c, n \div 2) IN h \o h
                ELSE c \o Repeat(c, n - 1)

\* A file name so long that the ordering prefix takes it over the limit.
LongFileName == Repeat("x", max_filename - 6) \o ".jpg"

RowAlbums ==
    [alb1 |-> AlbumRow("Trip", 3, Date(2020, 1, 1), Date(2020, 6, 15), FALSE),
     alb2 |-> AlbumRow("Caf" \o Unencodable, 2, Date(2020, 1, 1), Date(2020, 6, 15), FALSE),
     alb3 |-> AlbumRow("Trip", 2, Date(2020, 1, 1), Date(2020, 6, 15), TRUE)]

RowSyncFiles ==
    [m \in {"m1", "m2", "m3"} |->
        IF m = "m3"
        THEN [path |-> "photos/2021", filename |-> LongFileName, duplicate_number |-> 0]
        ELSE LinkSyncFiles[m]]

\* Two index states: three files in alb1 and two in alb3; one file in alb1,
\* two in the album that cannot be encoded, one in alb3 after them.
RowAlbumFileSets ==
    { {AF("alb1", "m1", 0), AF("alb1", "m2", 1), AF("alb1", "m3", 2),
       AF("alb3", "m2", 0), AF("alb3", "m3", 1)},
      {AF("alb1", "m2", 0), AF("alb2", "m2", 0), AF("alb2", "m1", 1),
       AF("alb3", "m2", 0)} }

RowDbs ==
    {[albums |-> [a \in {af.album_id : af \in afs} |-> RowAlbums[a]],
      album_files |-> afs, sync_files |-> RowSyncFiles]
     : afs \in RowAlbumFileSets}

RowSettings ==
    {[BaseSettings EXCEPT !.use_hardlinks = h, !.preserve_album_links = pr,
                          !.no_album_sorting = ns]
     : h \in BOOLEAN, pr \in BOOLEAN, ns \in BOOLEAN}

\* What is found at a link path that makes the link's creation fail: a
\* symbolic link to nothing, a file of its own.  At the path no album has,
\* a symbolic link to a media file.
RowTamperEntries(p) ==
    IF p = <<"albums", "2019", "01 Old", "x.jpg">>
    THEN {SymlinkEntry(relpath(MediaPath("m2"), Parent(p)))}
    ELSE {SymlinkEntry(<<"gone.jpg">>), ForeignFile}

\* m2 and the file with the long name are downloaded from the start.
InitRowsFs ==
    With(InitFs, <<"photos", "2021", LongFileName>>, FileEntry(3))

\* The media download pipeline writes a media file after a pass; which
\* rows that pass left without a link for want of their file is remembered.
DownloadAfterPass(m) ==
    /\ pc = "idle"
    /\ ~lexists(fs, MediaPath(m))
    /\ fs' = With(mkdir_parents(fs, Parent(MediaPath(m))).fs, MediaPath(m),
                  FileEntry(MediaFile[m].ino))
    /\ hist' = [HistNone EXCEPT !.skipped = hist.skipped]
    /\ UNCHANGED <<settings, flush, db, remote, pc, lnk, idx>>

InitRows ==
    /\ settings \in RowSettings
    /\ flush = FALSE
    /\ fs = InitRowsFs
    /\ db \in RowDbs
    /\ remote = RemoteNone
    /\ pc = "idle"
    /\ lnk = LnkIdle
    /\ idx = IdxIdle
    /\ hist = HistNone

NextRows ==
    \/ StartLinks
    \/ LinkRow
    \/ FinishLinks
    \/ \E m \in DOMAIN MediaFile : DownloadAfterPass(m)
    \/ \E p \in TamperPaths : \E e \in RowTamperEntries(p) : Tamper(p, e)

SpecRows == InitRows /\ [][NextRows]_vars

----------------------------------------------------------------------------
(* The indexer's world: the remote library between runs *)

\* What alb1's media listing comes to be, one after the other: one photo on
\* one page; a video before it; a video on a page of its own, an empty page
\* that still has a next page token, and two photos on the last page; the
\* same three items the other way round and on other pages; two photos of
\* one name and one month, in either order; no item at all.
Alb1History ==
    << << <<"i1">> >>,
       << <<"v1", "i1">> >>,
       << <<"v1">>, <<>>, <<"i1", "i2">> >>,
       << <<"i2", "i1">>, <<"v1">> >>,
       << <<"i3", "i1">> >>,
       << <<"i1", "i3">> >>,
       << <<>> >> >>

Alb1Contents ==
    {Alb1History[k] : k \in {j \in 1..Len(Alb1History) :
        \A n \in 1..Len(Alb1History[j]) : Len(Alb1History[j][n]) <= PAGE_SIZE}}

\* pages comes right after the listing alb1 has now.
ComesNext(pages) ==
    \E k \in 1..(Len(Alb1History) - 1) :
        Alb1History[k] = remote.albums["alb1"].pages /\ Alb1History[k + 1] = pages

Alb1Titles == {"Trip", "Other"}

\* alb1 has a title, alb2 has none; both are in both listings, the owned
\* listing on two pages.
InitRemote ==
    [albums |-> [alb1 |-> [title |-> "Trip", pages |-> << <<"i1">> >>],
                 alb2 |-> [title |-> "", pages |-> << <<"i2">> >>]],
     owned |-> << <<"alb1">>, <<"alb2">> >>,
     shared |-> << <<"alb2", "alb1">> >>]

ListingPagesOk(r) ==
    /\ \A k \in 1..Len(r.owned) : Len(r.owned[k]) <= ALBUM_ITEMS
    /\ \A k \in 1..Len(r.shared) : Len(r.shared[k]) <= ALBUM_ITEMS

\* The settings and the flush flag the indexer is run with.
IndexRuns ==
    {[settings |-> BaseSettings, flush |-> FALSE],
     [settings |-> BaseSettings, flush |-> TRUE],
     [settings |-> [BaseSettings EXCEPT !.include_video = FALSE], flush |-> FALSE],
     [settings |-> [BaseSettings EXCEPT !.favourites_only = TRUE], flush |-> FALSE],
     [settings |-> [BaseSettings EXCEPT !.album_index = FALSE], flush |-> FALSE],
     [settings |-> [BaseSettings EXCEPT !.shared_albums = FALSE], flush |-> FALSE],
     [settings |-> [BaseSettings EXCEPT !.shared_albums = FALSE,
                                        !.album_index = FALSE,
                                        !.include_video = FALSE], flush |-> FALSE],
     [settings |-> [BaseSettings EXCEPT !.album = "Trip"], flush |-> FALSE],
     [settings |-> [BaseSettings EXCEPT !.album = "Trip"], flush |-> TRUE],
     [settings |-> [BaseSettings EXCEPT !.album_regex = "tr"], flush |-> FALSE],
     [settings |-> [BaseSettings EXCEPT !.album = "Trip", !.album_regex = "tr"],
      flush |-> TRUE],
     [settings |-> [BaseSettings EXCEPT !.album = "Other", !.album_regex = "tr"],
      flush |-> FALSE]}

\* index_album_media begins: the first listing is requested.
StartIndex ==
    /\ pc = "idle"
    /\ ListingPagesOk(remote)
    /\ idx' = [passes |-> index_passes,
               todo |-> album_listing(Head(index_passes).item_key),
               count |-> 0]
    /\ pc' = "index"
    /\ hist' = [HistNone EXCEPT !.op = "index", !.result = "running",
                                !.startDb = db, !.prevAborted = hist.aborted]
    /\ UNCHANGED <<settings, flush, fs, db, remote, lnk>>

\* index_albums_type handles the next album of the listing.
IndexAlbum ==
    /\ pc = "index"
    /\ idx.todo # <<>>
    /\ LET r == index_one_album(db, Head(idx.todo), Head(idx.passes))
       IN  /\ db' = r.db
           /\ hist' = [hist EXCEPT !.log = Append(@, r.entry)]
    /\ idx' = [idx EXCEPT !.todo = Tail(@), !.count = @ + 1]
    /\ UNCHANGED <<settings, flush, fs, remote, pc, lnk>>

\* index_albums_type comes to an album it fetches, and a request of
\* fetch_album_contents raises: the exception leaves index_album_media.
IndexAlbumRaises(done) ==
    /\ pc = "index"
    /\ idx.todo # <<>>
    /\ LET pass == Head(idx.passes)
           album == GoogleAlbumMedia(Head(idx.todo))
           indexed_album == get_album(db, album.id)
       IN  /\ skip_rule(indexed_album, album, pass.allow_null_title) = "none"
           /\ done < Len(remote.albums[album.id].pages)
           /\ db' = fetch_album_contents_raising(
                        db, album.id,
                        effective_add_media_items(pass.add_media_items), done)
           /\ hist' = [hist EXCEPT
                 !.result = "raised",
                 !.aborted = <<[id |-> album.id, item_key |-> pass.item_key,
                                done |-> done,
                                row_at_fetch |-> indexed_album,
                                committed |-> {hist.log[k].id :
                                    k \in {j \in 1..Len(hist.log) :
                                              hist.log[j].fetched}}]>>]
    /\ idx' = IdxIdle
    /\ pc' = "idle"
    /\ UNCHANGED <<settings, flush, fs, remote, lnk>>

\* A listing is exhausted: index_albums_type returns, and the next call of
\* it begins.
NextListing ==
    /\ pc = "index"
    /\ idx.todo = <<>>
    /\ Len(idx.passes) > 1
    /\ idx' = [passes |-> Tail(idx.passes),
               todo |-> album_listing(idx.passes[2].item_key),
               count |-> 0]
    /\ UNCHANGED <<settings, flush, fs, db, remote, pc, lnk, hist>>

\* The last listing is exhausted: index_album_media returns.
FinishIndex ==
    /\ pc = "index"
    /\ idx.todo = <<>>
    /\ Len(idx.passes) = 1
    /\ idx' = IdxIdle
    /\ pc' = "idle"
    /\ hist' = [hist EXCEPT !.result = "done"]
    /\ UNCHANGED <<settings, flush, fs, db, remote, lnk>>

\* Between runs items are added to alb1 or taken out of it.
SetContents(pages) ==
    /\ pc = "idle"
    /\ ComesNext(pages)
    /\ remote' = [remote EXCEPT !.albums["alb1"].pages = pages]
    /\ hist' = HistNone
    /\ UNCHANGED <<settings, flush, fs, db, pc, lnk, idx>>

\* Between runs alb1 is given another title.
Rename(title) ==
    /\ pc = "idle"
    /\ title # remote.albums["alb1"].title
    /\ remote' = [remote EXCEPT !.albums["alb1"].title = title]
    /\ hist' = HistNone
    /\ UNCHANGED <<settings, flush, fs, db, pc, lnk, idx>>

InitIndex ==
    /\ \E run \in IndexRuns : settings = run.settings /\ flush = run.flush
    /\ fs = InitFs
    /\ db = EmptyDb
    /\ remote = InitRemote
    /\ pc = "idle"
    /\ lnk = LnkIdle
    /\ idx = IdxIdle
    /\ hist = HistNone

NextIndex ==
    \/ StartIndex
    \/ IndexAlbum
    \/ NextListing
    \/ FinishIndex
    \/ \E pages \in Alb1Contents : SetContents(pages)
    \/ \E title \in Alb1Titles : Rename(title)

SpecIndex == InitIndex /\ [][NextIndex]_vars

----------------------------------------------------------------------------
(* The indexer with a transport that can fail: runs over a remote library *)
(* that stays as it is                                                     *)

\* alb1 on one page or on three, alb2 on one page or on two.
AbortRemotes ==
    {[InitRemote EXCEPT !.albums["alb1"].pages = p1, !.albums["alb2"].pages = p2]
     : p1 \in {Alb1History[1], Alb1History[3]},
       p2 \in {<< <<"i2">> >>, << <<"i2">>, <<"v1", "i3">> >>}}

\* The store of a first use, and the store an earlier run left when only
\* alb2 was there and held i2 only.
AbortDbs ==
    {EmptyDb,
     [albums |-> [alb2 |-> [name |-> "none", size |-> 1,
                            start_date |-> Date(2020, 12, 31),
                            end_date |-> Date(2020, 12, 31),
                            shared |-> FALSE, downloaded |-> FALSE]],
      album_files |-> {AF("alb2", "i2", 0)},
      sync_files |-> [m \in {"i2"} |->
                        [path |-> "photos/2020/12", filename |-> "IMG_1.jpg",
                         duplicate_number |-> 0]]]}

\* The most pages of a listing that are handled before a request fails:
\* all but the last of the longest listing.
MaxPagesDone == Len(Alb1History[3]) - 1

InitAbort ==
    /\ \E run \in IndexRuns : settings = run.settings /\ flush = run.flush
    /\ fs = InitFs
    /\ db \in AbortDbs
    /\ remote \in AbortRemotes
    /\ pc = "idle"
    /\ lnk = LnkIdle
    /\ idx = IdxIdle
    /\ hist = HistNone

NextAbort ==
    \/ StartIndex
    \/ IndexAlbum
    \/ \E done \in 0..MaxPagesDone : IndexAlbumRaises(done)
    \/ NextListing
    \/ FinishIndex

SpecAbort == InitAbort /\ [][NextAbort]_vars

RECURSIVE plans_from(_, _, _, _)
\* The plans of the rows from the k-th on, as the loop's counter makes them.
plans_from(rows, k, current_rid, album_item) ==
    IF k > Len(rows) THEN <<>>
    ELSE LET item == IF rows[k].rid = current_rid THEN album_item + 1 ELSE 0
         IN  <<link_plan(rows[k], item)>> \o plans_from(rows, k + 1, rows[k].rid, item)

PlansOf(d) == plans_from(get_album_files(d, settings.album_invert, FALSE), 1, "", 0)

\* A correct link for a plan: in hardlink mode an entry for the target's
\* inode, in symlink mode a symbolic link that stores the relative path.
IsCorrectLink(f, plan) ==
    IF settings.use_hardlinks
    THEN /\ exists(f, plan.full_file_name)
         /\ exists(f, plan.link_file)
         /\ st_ino(f, plan.link_file) = st_ino(f, plan.full_file_name)
    ELSE /\ is_symlink(f, plan.link_file)
         /\ readlink(f, plan.link_file) = plan.relative_filename


----------------------------------------------------------------------------
(* album_folder_name on its own *)

NamingTitles == {"Trip!", "Trip", "My: Album"}
NamingStartDates == {Date(2019, 12, 31), Date(2020, 1, 1)}
NamingEndDates == {Date(2020, 6, 15), Date(2021, 1, 5)}

NamingSettings ==
    {[BaseSettings EXCEPT !.omit_album_date = o, !.use_start_date = u,
                          !.use_flat_path = f, !.month_format = mf,
                          !.path_format = pf]
     : o \in BOOLEAN, u \in BOOLEAN, f \in BOOLEAN,
       mf \in {"", "%m", "%d.%m"},
       pf \in {"", "{1} ({0})", "{0}-{1} {2}"}}

\* A call of album_folder_name: what it was given and what came of it.
NameFolder(album_name, start_date, end_date, shared) ==
    /\ pc = "idle"
    /\ LET r == album_folder_name(album_name, start_date, end_date, shared)
       IN  hist' = [HistNone EXCEPT
                      !.op = "name",
                      !.result = IF r.ok THEN "done" ELSE "raised",
                      !.named = <<[album_name |-> album_name,
                                   start_date |-> start_date,
                                   end_date |-> end_date,
                                   shared |-> shared,
                                   path |-> r.path]>>]
    /\ UNCHANGED <<settings, flush, fs, db, remote, pc, lnk, idx>>

InitNaming ==
    /\ settings \in NamingSettings
    /\ flush = FALSE
    /\ fs = InitFs
    /\ db = EmptyDb
    /\ remote = RemoteNone
    /\ pc = "idle"
    /\ lnk = LnkIdle
    /\ idx = IdxIdle
    /\ hist = HistNone

NextNaming ==
    \E album_name \in NamingTitles, start_date \in NamingStartDates,
       end_date \in NamingEndDates, shared \in BOOLEAN :
        NameFolder(album_name, start_date, end_date, shared)

SpecNaming == InitNaming /\ [][NextNaming]_vars

----------------------------------------------------------------------------
(* Properties of the link reconciler *)

LinksDone == pc = "idle" /\ hist.op = "links" /\ hist.result = "done"

PlanSet == {PlansOf(db)[k] : k \in 1..Len(PlansOf(db))}

CreatedPaths == {c.link_file : c \in hist.created}

IsRelativePathTo(t, folder, src) ==
    LET ups == Cardinality({k \in 1..Len(t) : t[k] = ".."})
    IN  /\ \A k \in 1..Len(t) : (t[k] = "..") <=> (k <= ups)
        /\ ups <= Len(folder)
        /\ Normalize(folder, t) = src
        /\ ups > 0 => ~IsPrefix(SubSeq(folder, 1, Len(folder) - ups + 1), src)

\* C6: every link a pass creates is, with hardlinks, an entry for the inode
\* of the source media file and, with symlinks, a symbolic link that stores
\* exactly the relative path from the link's folder to the source file.
C6_CreatedLinksAreCorrect ==
    \A c \in hist.created :
        IF settings.use_hardlinks
        THEN c.entry.kind = "file" /\ c.entry.ino = c.src_ino
             /\ c.src_ino = Lstat(fs, c.full_file_name).ino
        ELSE c.entry.kind = "symlink"
             /\ IsRelativePathTo(c.entry.target, c.link_folder, c.full_file_name)

C6_Witness ==
    /\ LinksDone
    /\ \E c \in hist.created : c.entry.kind = "symlink" /\ c.entry.target[1] = ".."
    /\ Cardinality(hist.created) >= 2

\* C5: a rebuild pass that follows a finished rebuild pass, with the index
\* rows and the media files unchanged in between, ends with the album trees
\* the earlier pass ended with.
C5_RebuildIdempotent ==
    (LinksDone /\ ~settings.preserve_album_links /\ hist.hasPrevEnd)
        => hist.endTree = hist.prevEndTree

C5_Witness ==
    /\ LinksDone /\ ~settings.preserve_album_links /\ hist.hasPrevEnd
    /\ hist.created # {}
    /\ LinkTree(hist.startFs) # hist.prevEndTree

UnderRoots(p) == IsUnder(p, _albums_root) \/ IsUnder(p, _shared_albums_root)

\* The number of album files of the index whose link path is p.
PlansAt(p) == Cardinality({k \in 1..Len(PlansOf(db)) : PlansOf(db)[k].link_file = p})

\* C2: after a finished preserve pass, an album file whose target exists and
\* whose link path no other album file takes has a correct link at that
\* path, whenever the path was absent or held a symbolic link before the
\* pass (correct, incorrect or dangling) or, with hardlinks, held any entry.
C2_PreserveRepairsLink ==
    (LinksDone /\ settings.preserve_album_links)
        => \A plan \in PlanSet :
              ( /\ exists(fs, plan.full_file_name)
                /\ PlansAt(plan.link_file) = 1
                /\ \/ Lstat(hist.startFs, plan.link_file).kind \in {"none", "symlink"}
                   \/ settings.use_hardlinks )
              => IsCorrectLink(fs, plan)

\* A link: a symbolic link, or with hardlinks a second entry for the inode
\* of a media file.
IsLinkEntry(f, p) ==
    \/ is_symlink(f, p)
    \/ /\ settings.use_hardlinks
       /\ Lstat(f, p).kind = "file"
       /\ \E m \in DOMAIN MediaFile :
             lexists(f, MediaPath(m)) /\ f[MediaPath(m)].ino = f[p].ino

\* C3: after a finished preserve pass, whatever the index holds, no link
\* below the two roots lies outside the pass's valid-link set, and no
\* directory that the removal of an entry emptied is left.
C3_PreservePrunesStale ==
    (LinksDone /\ settings.preserve_album_links)
        => /\ \A p \in DOMAIN fs :
                 (UnderRoots(p) /\ IsLinkEntry(fs, p)) => p \in hist.valid_links
           /\ \A p \in DOMAIN hist.startFs \ DOMAIN fs :
                 (UnderRoots(p) /\ UnderRoots(Parent(p)))
                    => ~(lexists(fs, Parent(p)) /\ Children(fs, Parent(p)) = {})

\* C4 as first stated: in a finished preserve pass, at the link path of
\* every album file that held a correct link when the pass began, nothing was
\* unlinked and no link was created, and the path still holds an entry.
C4_PreserveKeepsCorrectLinks ==
    (LinksDone /\ settings.preserve_album_links)
        => \A plan \in PlanSet :
              IsCorrectLink(hist.startFs, plan)
                 => /\ plan.link_file \notin hist.unlinked
                    /\ plan.link_file \notin CreatedPaths
                    /\ lexists(fs, plan.link_file)

\* C4: in a finished preserve pass, at the link path of an album file that
\* no other album file shares and that held a correct link when the pass
\* began, nothing was unlinked and no link was created, and the path still
\* holds that entry.
C4_PreserveKeepsUnsharedCorrectLinks ==
    (LinksDone /\ settings.preserve_album_links)
        => \A plan \in PlanSet :
              (IsCorrectLink(hist.startFs, plan) /\ PlansAt(plan.link_file) = 1)
                 => /\ plan.link_file \notin hist.unlinked
                    /\ plan.link_file \notin CreatedPaths
                    /\ lexists(fs, plan.link_file)
                    /\ fs[plan.link_file] = hist.startFs[plan.link_file]

C4_Witness ==
    /\ LinksDone /\ settings.preserve_album_links
    /\ CreatedPaths # {}
    /\ \E plan \in PlanSet :
          /\ IsCorrectLink(hist.startFs, plan)
          /\ PlansAt(plan.link_file) = 1
          /\ exists(fs, plan.full_file_name)

RowLog == {hist.rowlog[k] : k \in 1..Len(hist.rowlog)}

\* The links no album file of the pass has that are still in the trees.
StaleLinksLeft ==
    {p \in DOMAIN fs : /\ UnderRoots(p) /\ ~is_dir(fs, p) /\ IsLinkEntry(fs, p)
                       /\ p \notin hist.valid_links}

\* C15: a FileExistsError or UnicodeEncodeError while linking one album file
\* does not end the pass: the loop goes on with the next album file, a pass
\* in which no other exception arose ends having gone through every album
\* file of the index once and in order, and its prune step has run (in
\* preserve mode with at least one album file, no link that is not a
\* directory's is left outside the valid links).
C15_PerItemFailureIsCaught ==
    (hist.op = "links" /\ \A x \in RowLog : x.err \in {"none"} \cup
                                   {"FileExistsError", "UnicodeEncodeError"})
        => /\ hist.result # "raised"
           /\ \A k \in 1..Len(hist.rowlog) : hist.rowlog[k].i = k
           /\ pc = "link_rows" => lnk.i = Len(hist.rowlog) + 1
           /\ LinksDone =>
                 /\ Len(hist.rowlog) = Len(PlansOf(db))
                 /\ \A k \in 1..Len(hist.rowlog) :
                       hist.rowlog[k].link_file = PlansOf(db)[k].link_file
                 /\ (settings.preserve_album_links /\ hist.valid_links # {})
                       => StaleLinksLeft = {}

C15_Witness ==
    /\ LinksDone /\ settings.preserve_album_links
    /\ \E x, y, z \in RowLog :
          /\ x.err = "FileExistsError" /\ y.err = "UnicodeEncodeError"
          /\ z.i > x.i /\ z.i > y.i /\ z.err = "none" /\ z.linked
          /\ z.link_file \in CreatedPaths
    /\ \E p \in DOMAIN hist.startFs \ DOMAIN fs : UnderRoots(p) /\ is_symlink(hist.startFs, p)

\* The number of rows right before the k-th that are of the k-th row's album.
PlaceInAlbum(k) ==
    Cardinality({j \in 1..(k - 1) :
                    \A n \in j..k : hist.rowlog[n].rid = hist.rowlog[k].rid})

\* s cut to at most n characters.
FirstChars(s, n) == IF Len(s) > n THEN SubSeq(s, 1, n) ELSE s

\* C19: the link file name of a row is, with the ordering prefix, the
\* number of rows of the same album right before it (the counter: 0 at each
\* change of album id, one more otherwise) as four digits, "_" and the file
\* name; without the prefix the file name alone; in both cases cut to the
\* filename limit of 255 characters.
C19_LinkFilenameCountsWithinAlbum ==
    \A k \in 1..Len(hist.rowlog) :
        LET x == hist.rowlog[k]
            name == x.link_file[Len(x.link_file)]
        IN  /\ PlaceInAlbum(k) < 10
            /\ name = FirstChars(IF settings.no_album_sorting THEN x.file_name
                                 ELSE "000" \o Digits[PlaceInAlbum(k) + 1] \o "_"
                                      \o x.file_name,
                                 255)

C19_Witness ==
    /\ LinksDone /\ ~settings.no_album_sorting
    /\ \E k \in 2..Len(hist.rowlog) :
          /\ PlaceInAlbum(k) = 0 /\ PlaceInAlbum(k - 1) > 0
          /\ hist.rowlog[k].linked
    /\ \E k \in 1..Len(hist.rowlog) :
          /\ PlaceInAlbum(k) = 2
          /\ Len(hist.rowlog[k].file_name) + 5 > 255
          /\ Len(hist.rowlog[k].link_file[Len(hist.rowlog[k].link_file)]) = 255
          /\ hist.rowlog[k].linked

\* No row of the pass made a link while its media file was missing.
NoLinkToMissingTarget ==
    /\ \A k \in 1..Len(hist.rowlog) : ~hist.rowlog[k].had_target => ~hist.rowlog[k].made
    /\ \A c \in hist.created : c.src_ino # 0

\* C20: a pass makes no link for an album file whose media file is missing,
\* and tries again later: when a pass has left a row without a link for want
\* of its file and the file is there at the next pass over the same index,
\* this pass ends with the row's correct link in place, in rebuild and in
\* preserve mode - here for the rows whose link path no other row takes,
\* whose album folder name can be encoded and whose link path, with
\* symbolic links, holds nothing or a symbolic link when the later pass
\* begins.
C20_SkippedItemLinkedLater ==
    /\ NoLinkToMissingTarget
    /\ LinksDone =>
          \A k \in 1..Len(hist.rowlog) :
              ( /\ k \in hist.prevSkipped
                /\ hist.rowlog[k].had_target
                /\ PlansAt(hist.rowlog[k].link_file) = 1
                /\ ~HasUnencodable(hist.rowlog[k].link_file)
                /\ \/ settings.use_hardlinks
                   \/ Lstat(hist.startFs, hist.rowlog[k].link_file).kind
                         \in {"none", "symlink"} )
              => IsCorrectLink(fs, PlansOf(db)[k])

----------------------------------------------------------------------------
(* Properties of the indexer *)

IndexDone == pc = "idle" /\ hist.op = "index" /\ hist.result = "done"

LogEntries == {hist.log[k] : k \in 1..Len(hist.log)}

ListedAlbums == {Flatten(remote.owned)[k] : k \in 1..Len(Flatten(remote.owned))}
                \cup {Flatten(remote.shared)[k] : k \in 1..Len(Flatten(remote.shared))}

ListedIn(a, item_key) ==
    \E k \in 1..Len(album_listing(item_key)) : album_listing(item_key)[k].id = a

\* The album is listed by a call of the run in which neither the name
\* filter, nor the regex filter, nor the title rule skips it.
PassesFilters(a) ==
    LET title == remote.albums[a].title
        name == IF title = "" THEN "none" ELSE title
    IN  \E k \in 1..Len(index_passes) :
           /\ ListedIn(a, index_passes[k].item_key)
           /\ settings.album = "" \/ settings.album = name
           /\ settings.album_regex = "" \/ re_search(settings.album_regex, name)
           /\ index_passes[k].allow_null_title \/ title # ""

IsVideoSkipped(m) == ~settings.include_video /\ MediaItems[m].is_video

\* The fetch went through the whole listing: every item of it that is not
\* a skipped video was recorded.
FetchedInFull(e) ==
    /\ e.fetched
    /\ {e.recorded[k].media_id : k \in 1..Len(e.recorded)}
         = {e.listing[j] : j \in {i \in 1..Len(e.listing) : ~IsVideoSkipped(e.listing[i])}}

SameSizeNotFetched ==
    \A e \in LogEntries :
        (e.stored /\ e.stored_size = e.size /\ ~flush) => (~e.fetched /\ e.unchanged)

SizeChanged(a) ==
    /\ a \in DOMAIN hist.startDb.albums
    /\ hist.startDb.albums[a].size # album_size(remote, a)

\* C7 as first stated: an album whose stored size equals the listed size is
\* not fetched and no row is written for it unless flush is set; an album
\* whose listed size differs from the stored size is fetched in full in the
\* next run.
C7_ChangedSizeAlwaysRefetched ==
    /\ SameSizeNotFetched
    /\ IndexDone => \A a \in ListedAlbums :
          SizeChanged(a) => \E e \in LogEntries : e.id = a /\ FetchedInFull(e)

\* C7: an album whose stored size equals the listed size is not fetched and
\* no row is written for it unless flush is set; an album whose listed size
\* differs from the stored size is fetched in full in the next run, if a
\* listing of that run holds it in which the name filter, the regex filter
\* and the title rule let it pass.
C7_ChangedSizeRefetchedIfNotFiltered ==
    /\ SameSizeNotFetched
    /\ IndexDone => \A a \in ListedAlbums :
          (SizeChanged(a) /\ PassesFilters(a))
             => \E e \in LogEntries :
                   /\ e.id = a /\ FetchedInFull(e)
                   /\ db.albums[a].size = album_size(remote, a)

C7_Witness ==
    /\ IndexDone /\ ~flush
    /\ \E e \in LogEntries :
          e.stored /\ e.stored_size # e.size /\ e.fetched /\ Len(e.recorded) >= 2
    /\ \E e \in LogEntries : e.stored /\ e.stored_size = e.size /\ ~e.fetched

NoFilters == settings.album = "" /\ settings.album_regex = ""

\* C8 as first stated: an album without a title is skipped in the owned
\* listing, and is not skipped for its missing title in the shared listing.
C8_UntitledSkippedInOwnedListing ==
    \A e \in LogEntries :
        e.title = ""
           => /\ e.item_key = "albums" => ~e.fetched
              /\ e.item_key = "sharedAlbums" => e.skip # "no_title"

\* C8: an album without a title is skipped in the shared listing, whatever
\* its size and whether it is stored or not, and is not skipped for its
\* missing title in the owned listing: there it is fetched when no filter is
\* set and it is new, or changed in size, or flush is set.
C8_UntitledSkippedInSharedListing ==
    \A e \in LogEntries :
        e.title = ""
           => /\ e.item_key = "sharedAlbums"
                    => (~e.fetched /\ e.unchanged /\ e.skip # "already_indexed")
              /\ e.item_key = "albums"
                    => /\ e.skip # "no_title"
                       /\ (NoFilters /\ (flush \/ ~e.stored \/ e.stored_size # e.size))
                             => e.fetched

C8_Witness ==
    /\ IndexDone
    /\ \E e \in LogEntries :
          e.title = "" /\ e.item_key = "sharedAlbums" /\ e.skip = "no_title"
    /\ \E e \in LogEntries : e.title = "" /\ e.item_key = "albums" /\ e.fetched

RecordedIds(e) == {e.recorded[k].media_id : k \in 1..Len(e.recorded)}

\* C9 as first stated: for every shared album that is indexed a media row
\* is written for each of its recorded items, whatever favourites-only and
\* album_index are.
C9_SharedItemsAlwaysAdded ==
    \A e \in LogEntries :
        (e.item_key = "sharedAlbums" /\ e.fetched)
           => (e.added = RecordedIds(e) /\ RecordedIds(e) \subseteq e.rows_after)

\* C9: unless favourites-only is set, a media row is written for each
\* recorded item of every shared album that is indexed, also when
\* album_index is off; with favourites-only set no media row is written for
\* any album, shared or owned; album_index decides for owned albums alone.
C9_SharedItemsAddedUnlessFavourites ==
    \A e \in LogEntries :
        e.fetched
           => IF settings.favourites_only
              THEN e.added = {} /\ e.rows_after = e.rows_before
              ELSE IF e.item_key = "sharedAlbums" \/ settings.album_index
              THEN e.added = RecordedIds(e) /\ RecordedIds(e) \subseteq e.rows_after
              ELSE e.added = {} /\ e.rows_after = e.rows_before

C9_Witness ==
    /\ IndexDone /\ ~settings.album_index /\ ~settings.favourites_only
    /\ \E e \in LogEntries :
          e.item_key = "sharedAlbums" /\ e.fetched /\ e.added # {}
    /\ \E e \in LogEntries :
          e.item_key = "albums" /\ e.fetched /\ e.added = {} /\ e.recorded # <<>>

\* The places of the listing whose item is not a skipped video.
KeptPlaces(e) == {j \in 1..Len(e.listing) : ~IsVideoSkipped(e.listing[j])}

\* C10 as first stated: the recorded items are the items that are not
\* skipped, in listing order, with the positions 0, 1, 2, ... without a gap.
C10_PositionsContiguous ==
    \A e \in LogEntries :
        e.fetched
           => /\ Len(e.recorded) = Cardinality(KeptPlaces(e))
              /\ \A k \in 1..Len(e.recorded) : e.recorded[k].position = k - 1

\* C10: the recorded items are the items that are not skipped, in listing
\* order across all pages, each with its 0-based place in the whole listing:
\* the positions increase strictly, and a skipped video takes up a position,
\* so that with video skipping they need not be contiguous.
C10_PositionsAreListingPlaces ==
    \A e \in LogEntries :
        e.fetched
           => /\ Len(e.recorded) = Cardinality(KeptPlaces(e))
              /\ \A k \in 1..Len(e.recorded) :
                    /\ e.recorded[k].position + 1 \in KeptPlaces(e)
                    /\ e.listing[e.recorded[k].position + 1] = e.recorded[k].media_id
                    /\ k > 1 => e.recorded[k - 1].position < e.recorded[k].position

C10_Witness ==
    /\ IndexDone /\ ~settings.include_video
    /\ \E e \in LogEntries :
          /\ e.fetched
          /\ Len(e.recorded) >= 2
          /\ e.recorded[1].position > 0
          /\ Len(remote.albums[e.id].pages) > 1

KeptDates(e) == {MediaItems[e.listing[j]].create_date : j \in KeptPlaces(e)}

\* C11: a fetch returns as first_date the earliest and as last_date the
\* latest create_date of the items that are not skipped, wherever in the
\* listing and on whichever page they are; when there is no such item it
\* returns the two sentinel dates, the first after the last.
C11_DateRangeIsMinMax ==
    \A e \in LogEntries :
        e.fetched
           => IF KeptPlaces(e) = {}
              THEN /\ e.first_date = maximum_date
                   /\ e.last_date = MINIMUM_DATE
                   /\ DateBefore(e.last_date, e.first_date)
              ELSE /\ e.first_date \in KeptDates(e)
                   /\ \A d \in KeptDates(e) : ~DateBefore(d, e.first_date)
                   /\ e.last_date \in KeptDates(e)
                   /\ \A d \in KeptDates(e) : ~DateBefore(e.last_date, d)

C11_Witness ==
    /\ IndexDone
    /\ \E e \in LogEntries :
          /\ e.fetched
          /\ Len(e.recorded) = 3
          /\ Len(remote.albums[e.id].pages) > 1
          /\ MediaItems[e.recorded[1].media_id].create_date = e.last_date
          /\ MediaItems[e.recorded[2].media_id].create_date = e.first_date

\* The media rows with this file name in this folder.
SameNameAndFolder(filename, path) ==
    {x \in DOMAIN db.sync_files :
        db.sync_files[x].filename = filename /\ db.sync_files[x].path = path}

\* C12: the media rows that share a file name and a relative folder have
\* the duplicate numbers 0, 1, ... , each once, in whatever order the items
\* were processed; rows of the same file name in another folder are
\* numbered on their own.
C12_DuplicateNumbersDistinct ==
    \A x \in DOMAIN db.sync_files :
        LET group == SameNameAndFolder(db.sync_files[x].filename, db.sync_files[x].path)
        IN  /\ {db.sync_files[y].duplicate_number : y \in group}
                  = 0..(Cardinality(group) - 1)
            /\ \A y \in group \ {x} :
                  db.sync_files[y].duplicate_number # db.sync_files[x].duplicate_number

C12_Witness ==
    /\ IndexDone
    /\ {"i1", "i2", "i3"} \subseteq DOMAIN db.sync_files
    /\ db.sync_files["i3"].duplicate_number = 0
    /\ db.sync_files["i1"].duplicate_number = 1
    /\ db.sync_files["i2"].duplicate_number = 0
    /\ db.sync_files["i1"].path = db.sync_files["i3"].path
    /\ db.sync_files["i2"].path # db.sync_files["i3"].path

Named == hist.op = "name"

DefaultFormats == settings.month_format = "" /\ settings.path_format = ""

NestedByEndDate ==
    /\ ~settings.omit_album_date /\ ~settings.use_flat_path
    /\ ~settings.use_start_date

TwoDigits(n) == IF n < 10 THEN "0" \o IntStr(n) ELSE IntStr(n)

\* C13 as first stated: with the default formats, nested layout and the end
\* date, the folder is <year>/<2-digit month> <sanitized title> below the
\* album root: "Trip!" ending 2020-06-15 gives 2020/06 Trip.
C13_DefaultNestedFolderIsMonth ==
    (Named /\ DefaultFormats /\ NestedByEndDate)
        => \A n \in {hist.named[1]} :
              /\ hist.result = "done"
              /\ n.path = (IF n.shared THEN <<"sharedAlbums">> ELSE <<"albums">>)
                          \o <<IntStr(n.end_date.y),
                               TwoDigits(n.end_date.m) \o " "
                                  \o valid_file_name(n.album_name)>>
              /\ (n.album_name = "Trip!" /\ n.end_date = Date(2020, 6, 15) /\ ~n.shared)
                    => n.path = <<"albums", "2020", "06 Trip">>

\* C13: with the default formats, nested layout and the end date, the
\* folder is <year>/<2-digit month><2-digit day> <sanitized title> below the
\* album root: "Trip!" ending 2020-06-15 gives 2020/0615 Trip.  With the
\* month format "%m" it is <year>/<2-digit month> <sanitized title>:
\* 2020/06 Trip.
C13_DefaultNestedFolderIsMonthDay ==
    (Named /\ settings.path_format = "" /\ NestedByEndDate)
        => \A n \in {hist.named[1]} :
              LET root == IF n.shared THEN <<"sharedAlbums">> ELSE <<"albums">>
                  month == TwoDigits(n.end_date.m)
                  day == TwoDigits(n.end_date.d)
                  title == valid_file_name(n.album_name)
              IN  /\ hist.result = "done"
                  /\ settings.month_format = ""
                        => n.path = root \o <<IntStr(n.end_date.y),
                                              month \o day \o " " \o title>>
                  /\ settings.month_format = "%m"
                        => n.path = root \o <<IntStr(n.end_date.y),
                                              month \o " " \o title>>
                  /\ (n.album_name = "Trip!" /\ n.end_date = Date(2020, 6, 15)
                      /\ ~n.shared)
                        => /\ settings.month_format = ""
                                 => n.path = <<"albums", "2020", "0615 Trip">>
                           /\ settings.month_format = "%m"
                                 => n.path = <<"albums", "2020", "06 Trip">>

C13_Witness ==
    /\ Named /\ DefaultFormats /\ NestedByEndDate
    /\ hist.named[1].album_name = "Trip!"
    /\ hist.named[1].end_date = Date(2020, 6, 15)
    /\ ~hist.named[1].shared
    /\ hist.named[1].path = <<"albums", "2020", "0615 Trip">>

\* C14: album_folder_name returns a folder, and does not raise, for every
\* title, every pair of dates, both values of shared and every setting of
\* omit_album_date, use_start_date, layout, month format and path format.
C14_AlbumFolderNameTotal ==
    Named => (hist.result = "done" /\ hist.named[1].path # <<>>)

----------------------------------------------------------------------------
(* The order of the skip rules *)

\* The name index_albums_type compares with the filters.
NameOf(e) == IF e.title = "" THEN "none" ELSE e.title

FailsNameFilter(e) == settings.album # "" /\ settings.album # NameOf(e)

\* The regex filters of the runs are literal text: the album fails the
\* filter when the text, letter case ignored, is nowhere in its name.
FailsRegexFilter(e) ==
    /\ settings.album_regex # ""
    /\ \A k \in 1..Len(NameOf(e)) :
          k + Len(settings.album_regex) - 1 > Len(NameOf(e))
          \/ lower_from(SubSeq(NameOf(e), k, k + Len(settings.album_regex) - 1), 1)
                # lower_from(settings.album_regex, 1)

\* C17: the skip rules are applied in the order name filter, regex filter,
\* title rule, already-indexed rule, and the first that matches decides: an
\* album that fails the name filter or the regex filter is not fetched and
\* the store is left as it is (no album row, no album file row), whatever
\* flush is and whatever size is stored for it.
C17_SkipRulesInOrder ==
    \A e \in LogEntries :
        LET untitled == e.item_key = "sharedAlbums" /\ e.title = ""
            same_size == e.stored /\ e.stored_size = e.size
        IN  /\ (FailsNameFilter(e) \/ FailsRegexFilter(e))
                  => (~e.fetched /\ e.unchanged /\ e.recorded = <<>>)
            /\ e.skip = (IF FailsNameFilter(e) THEN "album"
                         ELSE IF FailsRegexFilter(e) THEN "album_regex"
                         ELSE IF untitled THEN "no_title"
                         ELSE IF same_size /\ ~flush THEN "already_indexed"
                         ELSE "none")
            /\ e.fetched <=> e.skip = "none"

C17_Witness ==
    /\ IndexDone /\ flush
    /\ \E e \in LogEntries :
          /\ FailsNameFilter(e) /\ FailsRegexFilter(e) /\ e.skip = "album"
          /\ e.stored /\ e.stored_size # e.size
    /\ \E e \in LogEntries :
          e.item_key = "sharedAlbums" /\ e.title = "" /\ e.skip = "album"

----------------------------------------------------------------------------
(* Paging through an album's media listing *)

\* The items of the listing that are not skipped videos, in listing order.
KeptItems(e) == SelectSeq(e.listing, LAMBDA m : ~IsVideoSkipped(m))

\* C18: fetch_album_contents goes through the pages of the listing up to
\* the page without a nextPageToken, an empty page that has a token does not
\* end it: the items it records are the items of all pages that are not
\* skipped videos, each once and in listing order, those on pages after an
\* empty page among them, and the counter has counted every item.
C18_AllPagesFetched ==
    \A e \in LogEntries :
        e.fetched
           => /\ e.listing = Flatten(remote.albums[e.id].pages)
              /\ [k \in 1..Len(e.recorded) |-> e.recorded[k].media_id] = KeptItems(e)
              /\ \A k \in 1..Len(e.recorded) : e.recorded[k].position < Len(e.listing)
              /\ \A k \in 1..Len(e.recorded) :
                    [album_id |-> e.id, media_id |-> e.recorded[k].media_id,
                     position |-> e.recorded[k].position] \in db.album_files

C18_Witness ==
    /\ IndexDone
    /\ \E e \in LogEntries :
          LET pages == remote.albums[e.id].pages
          IN  /\ e.fetched
              /\ \E k \in 1..(Len(pages) - 1) :
                    /\ pages[k] = <<>>
                    /\ pages[k + 1] # <<>>
                    /\ \A j \in 1..Len(pages[k + 1]) :
                          \E n \in 1..Len(e.recorded) :
                             e.recorded[n].media_id = pages[k + 1][j]

----------------------------------------------------------------------------
(* An index run that a failing fetch ends, and the run after it *)

IndexRaised == pc = "idle" /\ hist.op = "index" /\ hist.result = "raised"

\* The album files the store holds for album a.
AlbumFilesOf(d, a) == {af \in d.album_files : af.album_id = a}

\* Every album the ended run had fetched and written still has its album
\* row, with the listed size, and its album files.
CommittedRowsKept ==
    \A e \in LogEntries :
        (e.fetched /\ e.id # hist.aborted[1].id)
           => /\ e.id \in DOMAIN db.albums
              /\ db.albums[e.id].size = e.size
              /\ \A k \in 1..Len(e.recorded) :
                    [album_id |-> e.id, media_id |-> e.recorded[k].media_id,
                     position |-> e.recorded[k].position] \in AlbumFilesOf(db, e.id)

\* In the run after a run that a failing fetch of album A ended, the remote
\* library unchanged and flush not set: no album the ended run had written
\* is fetched, and A is fetched when the listing that came to it before
\* comes to it again.
NextRunAfterAbort ==
    (hist.op = "index" /\ hist.prevAborted # <<>> /\ ~flush)
        => LET x == hist.prevAborted[1]
           IN  \A e \in LogEntries :
                  /\ e.id \in x.committed => (~e.fetched /\ e.unchanged)
                  /\ (e.id = x.id /\ e.item_key = x.item_key) => e.fetched

\* C16 as first stated: when a failing fetch of album A ends an index run,
\* the albums written before it keep their rows and the next run skips
\* them, and A's album row is as it was before the run, so that the next
\* run fetches A again.
C16_AbortLeavesRowAsBeforeRun ==
    /\ IndexRaised =>
          /\ CommittedRowsKept
          /\ get_album(db, hist.aborted[1].id)
                = get_album(hist.startDb, hist.aborted[1].id)
    /\ NextRunAfterAbort

\* C16: when a failing fetch of album A ends an index run, the albums
\* written before it keep their rows and the next run (nothing changed
\* remotely, no flush) skips them; the failing fetch writes no album row,
\* so A's row is as it was when that fetch began - as before the run,
\* unless an earlier listing of the same run had fetched A already - and the
\* next run fetches A again.
C16_AbortLeavesRowAsBeforeFetch ==
    /\ IndexRaised =>
          LET x == hist.aborted[1]
          IN  /\ CommittedRowsKept
              /\ get_album(db, x.id) = x.row_at_fetch
              /\ x.id \notin x.committed
                    => get_album(db, x.id) = get_album(hist.startDb, x.id)
    /\ NextRunAfterAbort

C16_Witness ==
    /\ IndexDone /\ ~flush /\ hist.prevAborted # <<>>
    /\ LET x == hist.prevAborted[1]
       IN  /\ x.done > 0
           /\ \E e \in LogEntries : e.id \in x.committed /\ e.skip = "already_indexed"
           /\ \E e \in LogEntries : /\ e.id = x.id /\ e.fetched /\ x.id \notin x.committed
                                     /\ e.stored /\ e.stored_size # e.size

----------------------------------------------------------------------------
(* Album file rows over the index runs *)

AlbumFilePairs(d) == {<<af.album_id, af.media_id>> : af \in d.album_files}

\* The media items the remote album lists now.
ListedItems(a) ==
    {Flatten(remote.albums[a].pages)[k] : k \in 1..Len(Flatten(remote.albums[a].pages))}

\* C25: no step of an index run deletes an album file row: the (album,
\* media item) pairs of the store only grow, and the row of an item that the
\* remote album lists no longer is left as it is, with its position, when
\* the album is indexed again.
C25_AlbumFilesOnlyGrow ==
    [][/\ AlbumFilePairs(db) \subseteq AlbumFilePairs(db')
       /\ \A af \in db.album_files :
             af.media_id \notin ListedItems(af.album_id) => af \in db'.album_files]_vars

C25_Witness ==
    /\ IndexDone
    /\ \E e \in LogEntries :
          /\ e.fetched /\ e.stored /\ e.stored_size # e.size
          /\ \E af \in db.album_files :
                /\ af.album_id = e.id
                /\ af.media_id \notin ListedItems(e.id)
                /\ af \in hist.startDb.album_files
                /\ \E k \in 1..Len(e.recorded) : e.recorded[k].position = af.position

----------------------------------------------------------------------------
(* An album in both listings *)

\* The places of the run's log at which album a was fetched.
FetchesOf(a) == {k \in 1..Len(hist.log) : hist.log[k].id = a /\ hist.log[k].fetched}

\* A titled album that both listings hold and the name filters let pass.
TitledInBoth(a) ==
    /\ remote.albums[a].title # ""
    /\ ListedIn(a, "albums") /\ ListedIn(a, "sharedAlbums")
    /\ settings.album = "" \/ settings.album = remote.albums[a].title
    /\ settings.album_regex = ""
       \/ re_search(settings.album_regex, remote.albums[a].title)

\* C26 as first stated: with shared albums indexed and flush off, a titled
\* album in both listings that passes the name filters is fetched exactly
\* once in a run, by the shared listing, and its album row ends the run with
\* shared set; the owned listing skips it as already indexed.
C26_FetchedOnceByShared ==
    (IndexDone /\ settings.shared_albums /\ ~flush)
        => \A a \in ListedAlbums :
              TitledInBoth(a)
                 => /\ Cardinality(FetchesOf(a)) = 1
                    /\ \A k \in FetchesOf(a) : hist.log[k].item_key = "sharedAlbums"
                    /\ a \in DOMAIN db.albums /\ db.albums[a].shared
                    /\ \A e \in LogEntries :
                          (e.id = a /\ e.item_key = "albums")
                             => (e.skip = "already_indexed" /\ e.unchanged)

\* C26: with shared albums indexed and flush off, a titled album in both
\* listings that passes the name filters and is new or stored with another
\* size is fetched exactly once in a run, by the shared listing, and its
\* album row ends the run with shared set; one stored with the listed size
\* is not fetched at all and its row stays as stored; in both cases the owned
\* listing skips it as already indexed and writes nothing.
C26_FetchedOnceBySharedIfNewOrChanged ==
    (IndexDone /\ settings.shared_albums /\ ~flush)
        => \A a \in ListedAlbums :
              TitledInBoth(a)
                 => /\ IF a \notin DOMAIN hist.startDb.albums \/ SizeChanged(a)
                       THEN /\ Cardinality(FetchesOf(a)) = 1
                            /\ \A k \in FetchesOf(a) :
                                  hist.log[k].item_key = "sharedAlbums"
                            /\ a \in DOMAIN db.albums /\ db.albums[a].shared
                       ELSE /\ FetchesOf(a) = {}
                            /\ db.albums[a] = hist.startDb.albums[a]
                    /\ \A e \in LogEntries :
                          (e.id = a /\ e.item_key = "albums")
                             => (e.skip = "already_indexed" /\ e.unchanged)

C26_Witness ==
    /\ IndexDone /\ settings.shared_albums /\ ~flush
    /\ \E a \in ListedAlbums :
          /\ TitledInBoth(a) /\ SizeChanged(a)
          /\ Cardinality(FetchesOf(a)) = 1
          /\ db.albums[a].shared
          /\ \E e \in LogEntries :
                e.id = a /\ e.item_key = "albums" /\ e.skip = "already_indexed"

----------------------------------------------------------------------------
(* What the prune step deletes *)

\* The step in which a preserve pass prunes: the loop is over and at least
\* one album file was gone through.
PruneStep ==
    /\ pc = "link_rows" /\ lnk.i > Len(lnk.rows) /\ pc' = "idle"
    /\ settings.preserve_album_links /\ lnk.valid_links # {}

\* The entries other than directories that the step deletes.
PrunedEntries == {p \in DOMAIN fs \ DOMAIN fs' : Lstat(fs, p).kind # "dir"}

\* C22: the prune step deletes no entry of the valid-link set; with symbolic
\* links it deletes only symbolic links, so that a regular file outside the
\* set stays; with hardlinks it deletes every entry below the roots that is
\* not a directory and is outside the set.
C22_PruneDeletesExactlyStale ==
    [][PruneStep
         => /\ PrunedEntries \cap lnk.valid_links = {}
            /\ \A p \in PrunedEntries : UnderRoots(p)
            /\ IF settings.use_hardlinks
               THEN PrunedEntries =
                       {p \in DOMAIN fs : /\ UnderRoots(p)
                                          /\ Lstat(fs, p).kind # "dir"
                                          /\ p \notin lnk.valid_links}
               ELSE \A p \in PrunedEntries : is_symlink(fs, p)]_vars

\* The same with the entries that resolve to a directory set aside.
C22_PruneDeletesStaleExceptDirLinks ==
    [][PruneStep
         => /\ PrunedEntries \cap lnk.valid_links = {}
            /\ \A p \in PrunedEntries : UnderRoots(p)
            /\ IF settings.use_hardlinks
               THEN PrunedEntries =
                       {p \in DOMAIN fs : /\ UnderRoots(p)
                                          /\ ~is_dir(fs, p)
                                          /\ p \notin lnk.valid_links}
               ELSE PrunedEntries =
                       {p \in DOMAIN fs : /\ UnderRoots(p)
                                          /\ ~is_dir(fs, p)
                                          /\ is_symlink(fs, p)
                                          /\ p \notin lnk.valid_links}]_vars

----------------------------------------------------------------------------
(* The directories the prune step removes *)

\* The directories that the step removes.
RemovedDirs == {p \in DOMAIN fs \ DOMAIN fs' : Lstat(fs, p).kind = "dir"}

\* C23: in the prune step the directories are removed children before
\* parents: afterwards no directory below a root that exists is empty,
\* however deep the chain of directories that became empty was; the roots
\* themselves stay; and a directory is removed only when nothing that was
\* in it is left, so that every entry that stays still has its parent.
C23_EmptyDirsRemovedBottomUp ==
    [][PruneStep
         => /\ \A p \in DOMAIN fs' :
                  (UnderRoots(p) /\ Lstat(fs', p).kind = "dir"
                       /\ exists(fs, IF IsUnder(p, _albums_root) THEN _albums_root
                                     ELSE _shared_albums_root))
                     => Children(fs', p) # {}
            /\ \A p \in RemovedDirs : UnderRoots(p)
            /\ \A r \in {_albums_root, _shared_albums_root} :
                  lexists(fs, r) => (lexists(fs', r) /\ fs'[r] = fs[r])
            /\ \A q \in DOMAIN fs' : q # <<>> => Parent(q) \in DOMAIN fs'
            /\ \A p \in RemovedDirs :
                  \A q \in DOMAIN fs :
                     (IsUnder(q, p) /\ Lstat(fs, q).kind # "dir")
                        => q \in PrunedEntries]_vars

\* A finished pass that removed a stale link and the two nested directories
\* above it, up to the album root.
C23_Witness ==
    /\ LinksDone /\ settings.preserve_album_links /\ hist.valid_links # {}
    /\ \E p \in DOMAIN hist.startFs :
          /\ Len(p) = Len(_albums_root) + 3 /\ IsUnder(p, _albums_root)
          /\ Lstat(hist.startFs, p).kind # "dir"
          /\ ~lexists(fs, p)
          /\ ~lexists(fs, Parent(p))
          /\ ~lexists(fs, Parent(Parent(p)))
          /\ lexists(fs, _albums_root)

----------------------------------------------------------------------------
(* Rebuild and preserve over the same index and media files *)

\* The album roots with nothing below them.
EmptiedRoots(f) == Without(f, {q \in DOMAIN f : UnderRoots(q)})

\* After a finished rebuild pass the program is run again with
\* preserve_album_links set, over album roots that were emptied; the tree the
\* rebuild pass ended with is remembered.
RestartPreserving ==
    /\ pc = "idle"
    /\ hist.op = "links" /\ hist.result = "done"
    /\ ~settings.preserve_album_links /\ hist.hasEnd
    /\ settings' = [settings EXCEPT !.preserve_album_links = TRUE]
    /\ fs' = EmptiedRoots(fs)
    /\ hist' = [HistNone EXCEPT !.hasEnd = hist.hasEnd, !.endTree = hist.endTree]
    /\ UNCHANGED <<flush, db, remote, pc, lnk, idx>>

InitModes ==
    /\ settings \in {x \in LinkSettings : ~x.preserve_album_links}
    /\ flush = FALSE
    /\ fs = InitFs
    /\ db \in LinkDbs
    /\ remote = RemoteNone
    /\ pc = "idle"
    /\ lnk = LnkIdle
    /\ idx = IdxIdle
    /\ hist = HistNone

NextModes ==
    \/ StartLinks
    \/ LinkRow
    \/ FinishLinks
    \/ \E m \in DOMAIN MediaFile : Download(m)
    \/ \E d \in LinkDbs : Reindex(d)
    \/ RestartPreserving

SpecModes == InitModes /\ [][NextModes]_vars

\* A finished preserve pass that began from emptied roots right after a
\* finished rebuild pass over the same index and media files.
PreserveAfterRebuild ==
    LinksDone /\ settings.preserve_album_links /\ hist.hasPrevEnd

\* C24: a preserve pass started from empty album roots ends with the tree
\* that a rebuild pass over the same index rows and media files ends with:
\* the same link paths, each with the same target, and the same directories.
C24_PreserveFromEmptyEqualsRebuild ==
    PreserveAfterRebuild => LinkTree(fs) = hist.prevEndTree

\* Two album files of the index have the same link path.
SomeLinkPathShared == \E plan \in PlanSet : PlansAt(plan.link_file) > 1

\* The entries of tree t that are not directories.
LinksOf(t) == {p \in DOMAIN t : t[p].kind # "dir"}

\* The directories of tree t that are a root or have a link somewhere below.
DirsWithLinks(t) ==
    {p \in DOMAIN t :
        /\ t[p].kind = "dir"
        /\ \/ p \in {_albums_root, _shared_albums_root}
           \/ \E q \in LinksOf(t) : IsUnder(q, p)}

\* C24: a preserve pass started from empty album roots ends with the links
\* that a rebuild pass over the same index rows and media files ends with,
\* the same paths each with the same target, also when two album files have
\* the same link path and when targets are not downloaded; of the rebuild
\* pass's directories it ends with the roots and those that have a link
\* below them, and with no other.
C24_PreserveEqualsRebuildButEmptyDirs ==
    PreserveAfterRebuild
        => /\ LinksOf(LinkTree(fs)) = LinksOf(hist.prevEndTree)
           /\ \A p \in LinksOf(hist.prevEndTree) : fs[p] = hist.prevEndTree[p]
           /\ {p \in DOMAIN LinkTree(fs) : fs[p].kind = "dir"}
                 = DirsWithLinks(hist.prevEndTree)

\* Both passes made a link for an album file and replaced it with the link
\* of another album file that has the same link path.
C24_Witness ==
    /\ PreserveAfterRebuild /\ SomeLinkPathShared
    /\ hist.unlinked # {}
    /\ \E p \in hist.unlinked : p \in LinksOf(hist.prevEndTree)

----------------------------------------------------------------------------
(* A preserve pass that is interrupted, and the pass after it *)

\* What an interrupted pass leaves behind: the method has no state of its
\* own outside the filesystem and the index.
Interrupted(in_row) ==
    [HistNone EXCEPT !.op = "links", !.result = "interrupted",
                     !.aborted = <<[in_row |-> in_row]>>]

\* The process ends between two iterations of the loop: before the first
\* album file, between two album files, or after the last one and before the
\* prune step.
InterruptBetweenRows ==
    /\ pc = "link_rows"
    /\ pc' = "idle"
    /\ lnk' = LnkIdle
    /\ fs' = fs
    /\ hist' = Interrupted(FALSE)
    /\ UNCHANGED <<settings, flush, db, remote, idx>>

\* The process ends inside the iteration last begun, after the folder was
\* made and the link found at the link path was unlinked, and before the new
\* link is created: the filesystem is as that iteration left it, less the
\* link it created.
InterruptInRow ==
    /\ pc = "link_rows"
    /\ hist.rowlog # <<>>
    /\ LET last == hist.rowlog[Len(hist.rowlog)]
       IN  /\ last.made
           /\ fs' = Without(fs, {last.link_file})
    /\ pc' = "idle"
    /\ lnk' = LnkIdle
    /\ hist' = Interrupted(TRUE)
    /\ UNCHANGED <<settings, flush, db, remote, idx>>

InitCrash ==
    /\ settings \in {x \in LinkSettings : x.preserve_album_links}
    /\ flush = FALSE
    /\ fs = InitFs
    /\ db \in LinkDbs
    /\ remote = RemoteNone
    /\ pc = "idle"
    /\ lnk = LnkIdle
    /\ idx = IdxIdle
    /\ hist = HistNone

NextCrash ==
    \/ StartLinks
    \/ LinkRow
    \/ FinishLinks
    \/ InterruptBetweenRows
    \/ InterruptInRow
    \/ \E m \in DOMAIN MediaFile : Download(m)
    \/ \E d \in LinkDbs : Reindex(d)

SpecCrash == InitCrash /\ [][NextCrash]_vars

\* A finished preserve pass that came after an interrupted one, with the
\* index and the media files as they were when that one was interrupted.
FinishedAfterInterrupt ==
    LinksDone /\ settings.preserve_album_links /\ hist.aborted # <<>>

\* Every album file whose target is downloaded and whose link path no other
\* album file takes has its correct link.
DownloadedAreLinked ==
    \A plan \in PlanSet :
        (exists(fs, plan.full_file_name) /\ PlansAt(plan.link_file) = 1)
            => IsCorrectLink(fs, plan)

\* No link below the roots is outside the link paths of the album files.
NoLinkOutsideValid ==
    \A p \in DOMAIN fs :
        (UnderRoots(p) /\ IsLinkEntry(fs, p))
            => p \in {plan.link_file : plan \in PlanSet}

\* C21: after an interrupted preserve pass, wherever it was interrupted, one
\* finished preserve pass over the same index and media files leaves every
\* album file with a downloaded target its correct link and no link outside
\* the valid-link set.
C21_NextPassConverges ==
    FinishedAfterInterrupt => (DownloadedAreLinked /\ NoLinkOutsideValid)

\* The same for the passes that went through at least one album file.
NextPassConvergesWithRows ==
    (FinishedAfterInterrupt /\ hist.valid_links # {})
        => (DownloadedAreLinked /\ NoLinkOutsideValid)


====
